---- MODULE Spec2Model ----
(***************************************************************************)
(* The PICO-8 compatible audio synthesizer of thumbycolor_hw.c: four       *)
(* AudioChannel slots written by the main loop (thumbycolor_sfx,           *)
(* thumbycolor_audio_update, thumbycolor_set_volume) and read by the       *)
(* sample timer interrupt (audio_timer_callback -> audio_generate_sample). *)
(*                                                                         *)
(* The main loop is modelled one shared-memory write per step, the line    *)
(* of the next write being held in pc.line; the interrupt runs to          *)
(* completion between any two of these steps.  Tests and local reads of    *)
(* the main loop are folded into the neighbouring write: the interrupt     *)
(* writes only phase and lfsr, which no main-loop test reads.              *)
(***************************************************************************)
EXTENDS Integers, Sequences, FiniteSets, TLC

VARIABLES
  audio_channels,   \* [0..3 -> AudioChannel]
  master_volume,    \* uint8_t master_volume
  lfsr,             \* uint32_t lfsr
  pc,               \* the main loop's position inside the call it is running
  out,              \* the level last written to the audio PWM
  last,             \* the handler that took the last step
  calls,            \* calls started by the main loop (bounded in Spec)
  samples           \* timer interrupts served (bounded)

vars == <<audio_channels, master_volume, lfsr, pc, out, last, calls, samples>>

synth == <<audio_channels, master_volume, lfsr>>

----------------------------------------------------------------------------
(* Program constants *)

AUDIO_SAMPLE_RATE == 22050

AUDIO_NUM_CHANNELS == 4

NUM_SFX == 8

NUM_NOTES == 32

NUM_PITCHES == 64

SAMPLES_PER_SPEED == 183

FRAME_RATE == 60

PWM_CENTER == 128

INIT_MASTER_VOLUME == 200

LFSR_SEED == 44257     \* 0xACE1

NULL == -1             \* the sfx pointer of a channel never played

UINT8 == 256

UINT16 == 65536

Channels == 0 .. (AUDIO_NUM_CHANNELS - 1)

\* PICO-8 frequency table, indices 0..63 held at positions 1..64
p8_freq_table ==
  <<65, 69, 73, 78, 82, 87, 92, 98,
    104, 110, 117, 123, 131, 139, 147, 156,
    165, 175, 185, 196, 208, 220, 233, 247,
    262, 277, 294, 311, 330, 349, 370, 392,
    415, 440, 466, 494, 523, 554, 587, 622,
    659, 698, 740, 784, 831, 880, 932, 988,
    1047, 1109, 1175, 1245, 1319, 1397, 1480, 1568,
    1661, 1760, 1865, 1976, 2093, 2217, 2349, 2489>>

\* The SFX library, ids 0..7 held at positions 1..8; a note is
\* <<pitch, waveform, volume, effect>>, notes 0..31 at positions 1..32
hyperspace_sfx ==
  <<
  [speed |-> 1, loop_start |-> 0, loop_end |-> 13, notes |-> <<
      <<50, 2, 3, 0>>, <<51, 2, 3, 0>>, <<51, 2, 3, 0>>, <<49, 2, 1, 0>>,
      <<46, 2, 3, 0>>, <<41, 2, 3, 0>>, <<36, 2, 4, 0>>, <<34, 2, 3, 0>>,
      <<32, 2, 3, 0>>, <<29, 2, 3, 0>>, <<28, 2, 3, 0>>, <<28, 2, 2, 0>>,
      <<28, 2, 1, 0>>, <<28, 2, 0, 0>>, <<28, 0, 0, 0>>, <<0, 0, 0, 0>>,
      <<50, 4, 0, 0>>, <<52, 4, 0, 0>>, <<52, 4, 0, 0>>, <<49, 4, 0, 0>>,
      <<46, 4, 0, 0>>, <<41, 4, 0, 0>>, <<36, 4, 0, 0>>, <<34, 4, 0, 0>>,
      <<32, 4, 0, 0>>, <<29, 4, 0, 0>>, <<28, 4, 0, 0>>, <<28, 4, 0, 0>>,
      <<28, 4, 0, 0>>, <<1, 4, 0, 0>>, <<1, 4, 0, 0>>, <<1, 4, 0, 0>>>>],
  [speed |-> 5, loop_start |-> 0, loop_end |-> 0, notes |-> <<
      <<36, 6, 7, 0>>, <<36, 6, 7, 0>>, <<39, 6, 7, 0>>, <<42, 6, 7, 0>>,
      <<49, 6, 7, 0>>, <<56, 6, 7, 0>>, <<63, 6, 7, 0>>, <<63, 6, 7, 0>>,
      <<48, 6, 7, 0>>, <<41, 6, 7, 0>>, <<36, 6, 7, 0>>, <<32, 6, 7, 0>>,
      <<30, 6, 6, 0>>, <<28, 6, 6, 0>>, <<27, 6, 5, 0>>, <<26, 6, 5, 0>>,
      <<25, 6, 4, 0>>, <<25, 6, 4, 0>>, <<24, 6, 3, 0>>, <<25, 6, 3, 0>>,
      <<26, 6, 2, 0>>, <<28, 6, 2, 0>>, <<32, 6, 1, 0>>, <<35, 6, 1, 0>>,
      <<10, 6, 0, 0>>, <<11, 6, 0, 0>>, <<13, 6, 0, 0>>, <<16, 6, 0, 0>>,
      <<18, 6, 0, 0>>, <<20, 6, 0, 0>>, <<23, 6, 0, 0>>, <<24, 6, 0, 0>>>>],
  [speed |-> 3, loop_start |-> 0, loop_end |-> 0, notes |-> <<
      <<45, 6, 7, 0>>, <<41, 4, 7, 0>>, <<36, 4, 7, 0>>, <<25, 6, 7, 0>>,
      <<30, 4, 7, 0>>, <<32, 6, 7, 0>>, <<29, 6, 7, 0>>, <<13, 6, 7, 0>>,
      <<22, 6, 7, 0>>, <<20, 4, 7, 0>>, <<16, 4, 7, 0>>, <<15, 4, 7, 0>>,
      <<19, 6, 7, 0>>, <<11, 4, 7, 0>>, <<9, 4, 7, 0>>, <<7, 6, 6, 0>>,
      <<7, 4, 5, 0>>, <<5, 4, 4, 0>>, <<8, 6, 3, 0>>, <<2, 4, 2, 0>>,
      <<1, 4, 1, 0>>, <<12, 6, 0, 0>>, <<5, 6, 0, 0>>, <<1, 6, 0, 0>>,
      <<1, 6, 0, 0>>, <<1, 6, 0, 0>>, <<3, 6, 0, 0>>, <<1, 6, 0, 0>>,
      <<2, 6, 0, 0>>, <<1, 6, 0, 0>>, <<1, 6, 0, 0>>, <<0, 0, 0, 0>>>>],
  [speed |-> 1, loop_start |-> 0, loop_end |-> 0, notes |-> <<
      <<60, 3, 7, 0>>, <<60, 0, 7, 0>>, <<55, 1, 7, 0>>, <<57, 0, 7, 0>>,
      <<54, 0, 7, 0>>, <<51, 0, 7, 0>>, <<47, 1, 7, 0>>, <<48, 0, 7, 0>>,
      <<41, 0, 7, 0>>, <<34, 0, 7, 0>>, <<32, 0, 7, 0>>, <<27, 0, 7, 0>>,
      <<23, 0, 7, 0>>, <<29, 1, 7, 0>>, <<20, 0, 7, 0>>, <<19, 0, 7, 0>>,
      <<18, 0, 7, 0>>, <<18, 0, 7, 0>>, <<19, 0, 7, 0>>, <<21, 0, 7, 0>>,
      <<18, 1, 7, 0>>, <<23, 0, 7, 0>>, <<18, 1, 7, 0>>, <<30, 0, 7, 0>>,
      <<39, 0, 7, 0>>, <<44, 0, 7, 0>>, <<53, 0, 7, 0>>, <<54, 0, 7, 0>>,
      <<28, 1, 7, 0>>, <<33, 1, 7, 0>>, <<46, 1, 7, 0>>, <<0, 0, 0, 0>>>>],
  [speed |-> 1, loop_start |-> 0, loop_end |-> 13, notes |-> <<
      <<44, 4, 4, 0>>, <<18, 0, 4, 0>>, <<1, 0, 2, 0>>, <<16, 0, 0, 0>>,
      <<0, 0, 0, 0>>, <<0, 0, 0, 0>>, <<0, 0, 0, 0>>, <<0, 0, 0, 0>>,
      <<0, 0, 0, 0>>, <<0, 0, 0, 0>>, <<0, 0, 0, 0>>, <<0, 0, 0, 0>>,
      <<0, 0, 0, 0>>, <<0, 0, 0, 0>>, <<0, 0, 0, 0>>, <<0, 0, 0, 0>>,
      <<0, 0, 0, 0>>, <<0, 0, 0, 0>>, <<0, 0, 0, 0>>, <<0, 0, 0, 0>>,
      <<0, 0, 0, 0>>, <<0, 0, 0, 0>>, <<0, 0, 0, 0>>, <<0, 0, 0, 0>>,
      <<0, 0, 0, 0>>, <<0, 0, 0, 0>>, <<0, 0, 0, 0>>, <<0, 0, 0, 0>>,
      <<0, 0, 0, 0>>, <<0, 0, 0, 0>>, <<0, 0, 0, 0>>, <<0, 0, 0, 0>>>>],
  [speed |-> 1, loop_start |-> 0, loop_end |-> 0, notes |-> <<
      <<44, 4, 7, 0>>, <<40, 4, 7, 0>>, <<35, 4, 7, 0>>, <<32, 4, 7, 0>>,
      <<28, 4, 7, 0>>, <<26, 4, 7, 0>>, <<23, 4, 6, 0>>, <<21, 4, 4, 0>>,
      <<21, 4, 2, 0>>, <<20, 4, 0, 0>>, <<22, 4, 0, 0>>, <<0, 0, 0, 0>>,
      <<0, 0, 0, 0>>, <<0, 0, 0, 0>>, <<0, 0, 0, 0>>, <<0, 0, 0, 0>>,
      <<0, 0, 0, 0>>, <<0, 0, 0, 0>>, <<0, 0, 0, 0>>, <<0, 0, 0, 0>>,
      <<0, 0, 0, 0>>, <<0, 0, 0, 0>>, <<0, 0, 0, 0>>, <<0, 0, 0, 0>>,
      <<0, 0, 0, 0>>, <<0, 0, 0, 0>>, <<0, 0, 0, 0>>, <<0, 0, 0, 0>>,
      <<0, 0, 0, 0>>, <<0, 0, 0, 0>>, <<0, 0, 0, 0>>, <<0, 0, 0, 0>>>>],
  [speed |-> 24, loop_start |-> 0, loop_end |-> 0, notes |-> <<
      <<0, 0, 0, 0>>, <<7, 3, 6, 0>>, <<20, 1, 4, 0>>, <<7, 3, 6, 0>>,
      <<20, 1, 4, 0>>, <<26, 3, 7, 0>>, <<20, 1, 4, 0>>, <<27, 3, 7, 0>>,
      <<1, 4, 4, 0>>, <<23, 3, 7, 0>>, <<23, 3, 7, 0>>, <<23, 3, 7, 0>>,
      <<23, 3, 7, 0>>, <<23, 3, 6, 0>>, <<23, 3, 5, 0>>, <<23, 3, 0, 0>>,
      <<1, 4, 0, 0>>, <<1, 4, 0, 0>>, <<23, 3, 0, 0>>, <<11, 4, 0, 0>>,
      <<23, 0, 0, 0>>, <<23, 0, 0, 0>>, <<23, 0, 0, 0>>, <<23, 0, 0, 0>>,
      <<0, 0, 0, 0>>, <<0, 0, 0, 0>>, <<0, 0, 0, 0>>, <<0, 0, 0, 0>>,
      <<0, 0, 0, 0>>, <<0, 0, 0, 0>>, <<0, 0, 0, 0>>, <<0, 0, 0, 0>>>>],
  [speed |-> 32, loop_start |-> 0, loop_end |-> 0, notes |-> <<
      <<13, 2, 7, 0>>, <<13, 2, 7, 0>>, <<8, 2, 7, 0>>, <<8, 2, 7, 0>>,
      <<4, 2, 7, 0>>, <<4, 2, 7, 0>>, <<1, 2, 7, 0>>, <<1, 2, 7, 0>>,
      <<1, 2, 7, 0>>, <<1, 2, 7, 0>>, <<1, 2, 7, 0>>, <<1, 2, 7, 0>>,
      <<18, 0, 0, 0>>, <<18, 0, 0, 0>>, <<18, 0, 0, 0>>, <<18, 0, 0, 0>>,
      <<19, 0, 0, 0>>, <<20, 0, 0, 0>>, <<50, 0, 2, 0>>, <<20, 0, 0, 0>>,
      <<20, 0, 0, 0>>, <<52, 0, 4, 0>>, <<68, 0, 4, 0>>, <<82, 0, 4, 0>>,
      <<118, 0, 5, 0>>, <<82, 0, 4, 0>>, <<102, 0, 4, 0>>, <<82, 0, 4, 0>>,
      <<82, 0, 4, 0>>, <<82, 0, 4, 0>>, <<1, 0, 4, 0>>, <<0, 0, 0, 0>>>>]
  >>

Sfx(n) == hyperspace_sfx[n + 1]

\* c->sfx->notes[i][f], f = 0 pitch, 1 waveform, 2 volume, 3 effect
Note(n, i, f) == hyperspace_sfx[n + 1].notes[i + 1][f + 1]

----------------------------------------------------------------------------
(* C integer arithmetic *)

\* int / int rounding toward minus infinity
FloorDiv(a, b) == a \div b

\* int / int: the quotient truncated toward zero
TruncDiv(a, b) == IF a >= 0 THEN a \div b ELSE -((-a) \div b)

\* bit k of x
Bit(x, k) == (x \div (2 ^ k)) % 2

Xor(a, b) == (a + b) % 2

\* A uint32_t is held as its two 16-bit halves, [hi, lo], of value
\* hi * 65536 + lo: the phase accumulator runs over all of 0 .. 2^32 - 1
Word(hi, lo) == [hi |-> hi, lo |-> lo]

\* AddWord without the reduction of the high half modulo 2^16
AddWordUnwrapped(w, k) ==
  LET s == w.lo + (k % UINT16)
  IN  Word(w.hi + (k \div UINT16) + (s \div UINT16), s % UINT16)

\* w + k modulo 2^32, for 0 <= k < 2^31
AddWord(w, k) ==
  LET s == w.lo + (k % UINT16)
  IN  Word((w.hi + (k \div UINT16) + (s \div UINT16)) % UINT16, s % UINT16)

\* w * 2 modulo 2^32
DoubleWord(w) ==
  Word((2 * w.hi + ((2 * w.lo) \div UINT16)) % UINT16, (2 * w.lo) % UINT16)

----------------------------------------------------------------------------
(* Waveform generators *)

\* uint16_t p = phase >> 8
PhaseHi(phase) == (phase.hi % 256) * 256 + (phase.lo \div 256)

\* gen_triangle without the conversion of its result to uint8_t
gen_triangle_int(phase) ==
  LET p == (phase.hi % 256) * 256 + (phase.lo \div 256)
  IN  IF p < 128 THEN p * 2 ELSE 255 - (p - 128) * 2

gen_triangle(phase) ==
  LET p == PhaseHi(phase)
  IN  IF p < 128 THEN (p * 2) % UINT8
                 ELSE (255 - (p - 128) * 2) % UINT8

\* (uint8_t)(phase >> 8)
gen_saw(phase) == phase.lo \div 256

gen_square(phase, duty) ==
  LET p == PhaseHi(phase)
  IN  IF p < duty THEN 255 ELSE 0

\* LfsrNext with the feedback bit shifted to bit 16
LfsrNextBit16(l) ==
  (l \div 2) + 65536 * Xor(Xor(Bit(l, 0), Bit(l, 2)), Xor(Bit(l, 3), Bit(l, 5)))

\* LfsrNext without the feedback bit
LfsrNextShiftOnly(l) == l \div 2

\* the LFSR after one gen_noise() call: (lfsr >> 1) | (bit << 15)
LfsrNext(l) ==
  LET bit == Xor(Xor(Bit(l, 0), Bit(l, 2)), Xor(Bit(l, 3), Bit(l, 5)))
      h   == l \div 2
  IN  IF bit = 1 /\ Bit(h, 15) = 0 THEN h + 32768 ELSE h

\* gen_noise returning the low byte of the LFSR before it is stepped
gen_noise_stale(l) == l % 256

\* the value gen_noise() returns, l being the LFSR before the call
gen_noise(l) == LfsrNext(l) % 256

\* the switch on c->waveform; sample stays 128 when no case matches
WaveSample(waveform, phase, l) ==
  CASE waveform = 0 -> gen_triangle(phase)
    [] waveform = 1 -> gen_saw(phase)
    [] waveform = 2 -> gen_saw(phase)
    [] waveform = 3 -> gen_square(phase, 128)
    [] waveform = 4 -> gen_square(phase, 64)
    [] waveform = 5 ->
         ((gen_square(phase, 128) + gen_square(DoubleWord(phase), 128)) \div 2) % UINT8
    [] waveform = 6 -> gen_noise(l)
    [] waveform = 7 ->
         ((gen_saw(phase) + gen_saw(AddWord(phase, 8192))) \div 2) % UINT8
    [] OTHER -> PWM_CENTER

\* VolSample without the division by 7
VolSampleUnscaled(sample, volume) == (sample - 128) * volume

\* (sample - 128) * volume / 7
VolSample(sample, volume) == TruncDiv((sample - 128) * volume, 7)

\* Contributes without the test of active
ContributesAnyState(c) == c.volume /= 0

\* Contributes without the test of the volume
ContributesAnyVolume(c) == c.active

\* the test that lets a channel into the mix
Contributes(c) == c.active /\ c.volume /= 0

\* MixLoop halving the running mix at every channel it adds
RECURSIVE MixLoopRunning(_, _)
MixLoopRunning(ch, acc) ==
  IF ch >= AUDIO_NUM_CHANNELS THEN acc
  ELSE LET c == acc.chans[ch]
       IN  IF ~Contributes(c) THEN MixLoopRunning(ch + 1, acc)
           ELSE LET sample == WaveSample(c.waveform, c.phase, acc.lfsr)
                IN  MixLoopRunning(ch + 1,
                      [mix |-> TruncDiv(acc.mix + VolSample(sample, c.volume), 2),
                       active_count |-> 1,
                       lfsr |-> IF c.waveform = 6 THEN LfsrNext(acc.lfsr) ELSE acc.lfsr,
                       chans |-> [acc.chans EXCEPT
                                    ![ch].phase = AddWord(c.phase, c.phase_inc)]])

\* the loop over the channels, from channel ch on: acc is
\* [mix, active_count, lfsr, chans] as the loop has left them so far
RECURSIVE MixLoop(_, _)
MixLoop(ch, acc) ==
  IF ch >= AUDIO_NUM_CHANNELS THEN acc
  ELSE LET c == acc.chans[ch]
       IN  IF ~Contributes(c) THEN MixLoop(ch + 1, acc)
           ELSE LET sample == WaveSample(c.waveform, c.phase, acc.lfsr)
                IN  MixLoop(ch + 1,
                      [mix |-> acc.mix + VolSample(sample, c.volume),
                       active_count |-> acc.active_count + 1,
                       lfsr |-> IF c.waveform = 6 THEN LfsrNext(acc.lfsr) ELSE acc.lfsr,
                       chans |-> [acc.chans EXCEPT
                                    ![ch].phase = AddWord(c.phase, c.phase_inc)]])

\* mix = mix / active_count when some channel contributed
Average(mix, active_count) ==
  IF active_count > 0 THEN TruncDiv(mix, active_count) ELSE mix

\* MixOutput scaling by the master volume of the initialiser, whatever
\* thumbycolor_set_volume stored since
MixOutputInitVolume(mix, mv) ==
  LET o == PWM_CENTER + TruncDiv(mix * INIT_MASTER_VOLUME, 255)
  IN  IF o < 0 THEN 0 ELSE IF o > 255 THEN 255 ELSE o

\* MixOutput with the master volume used as a plain gain, unclamped
MixOutputUnscaled(mix, mv) == PWM_CENTER + mix * mv

\* MixOutput with the master volume left out
MixOutputNoMaster(mix, mv) ==
  LET o == PWM_CENTER + mix
  IN  IF o < 0 THEN 0 ELSE IF o > 255 THEN 255 ELSE o

\* 128 + mix * master_volume / 255, clamped to 0..255
MixOutput(mix, mv) ==
  LET o == PWM_CENTER + TruncDiv(mix * mv, 255)
  IN  IF o < 0 THEN 0 ELSE IF o > 255 THEN 255 ELSE o

\* audio_generate_sample on channels chans, LFSR l, master volume mv:
\* [sample, lfsr, chans]
GenerateSample(chans, l, mv) ==
  LET r == MixLoop(0, [mix |-> 0, active_count |-> 0, lfsr |-> l, chans |-> chans])
  IN  [sample |-> MixOutput(Average(r.mix, r.active_count), mv),
       lfsr |-> r.lfsr,
       chans |-> r.chans]

\* PhaseInc dividing before it multiplies
PhaseIncDivFirst(pitch) == (p8_freq_table[pitch + 1] \div AUDIO_SAMPLE_RATE) * 65536

\* PhaseInc storing the frequency in Hz, unscaled
PhaseIncHz(pitch) == p8_freq_table[pitch + 1]

\* (freq * 65536) / AUDIO_SAMPLE_RATE for p8_freq_table[pitch]
PhaseInc(pitch) == (p8_freq_table[pitch + 1] * 65536) \div AUDIO_SAMPLE_RATE

\* Audible without the test of the volume
AudibleAnyVolume(pitch, volume) == pitch < NUM_PITCHES

\* pitch < 64 && c->volume > 0
Audible(pitch, volume) == pitch < NUM_PITCHES /\ volume > 0

----------------------------------------------------------------------------
(* State *)

\* a zero-initialised AudioChannel with the fields thumbycolor_audio_init sets
ZeroChannel ==
  [sfx |-> NULL, note_index |-> 0, sample_count |-> 0, samples_per_note |-> 0,
   phase |-> Word(0, 0), phase_inc |-> 0, volume |-> 0, waveform |-> 0,
   active |-> FALSE, looping |-> FALSE]

\* the main loop between two calls
Idle ==
  [op |-> "idle", line |-> 0, n |-> 0, channel |-> 0, pre |-> 0, irq |-> FALSE]

At(op, line, n, channel, pre, irq) ==
  [op |-> op, line |-> line, n |-> n, channel |-> channel, pre |-> pre, irq |-> irq]

\* what the first tests of thumbycolor_sfx make of its arguments
ValidChannel(channel) == channel >= 0 /\ channel < AUDIO_NUM_CHANNELS

\* SfxKind with every negative n but -2 taken as a stop
SfxKindNegativeStops(n, channel) ==
  IF ~ValidChannel(channel) THEN "bad_channel"
  ELSE IF n = -2 THEN "stop_all"
  ELSE IF n < 0 THEN "stop"
  ELSE IF n >= NUM_SFX THEN "bad_id"
  ELSE "play"

SfxKind(n, channel) ==
  IF ~ValidChannel(channel) THEN "bad_channel"
  ELSE IF n = -1 THEN "stop"
  ELSE IF n = -2 THEN "stop_all"
  ELSE IF n < 0 \/ n >= NUM_SFX THEN "bad_id"
  ELSE "play"

\* Visited without the test of active
VisitedAnyState(c) == c.sfx /= NULL

\* if (!c->active || !c->sfx) continue;
Visited(c) == c.active /\ c.sfx /= NULL

\* the first channel from `from` on that thumbycolor_audio_update does not skip
RECURSIVE NextVisited(_, _)
NextVisited(chans, from) ==
  IF from >= AUDIO_NUM_CHANNELS THEN AUDIO_NUM_CHANNELS
  ELSE IF Visited(chans[from]) THEN from
  ELSE NextVisited(chans, from + 1)

\* where thumbycolor_audio_update goes once it is done with channel ch
NextChannel(chans, ch, p) ==
  LET nx == NextVisited(chans, ch + 1)
  IN  IF nx >= AUDIO_NUM_CHANNELS THEN Idle ELSE [p EXCEPT !.line = 728, !.channel = nx]

\* PastEnd one note early
PastEndEarly(note_index) == note_index >= NUM_NOTES - 1

\* PastEnd one note late
PastEndLate(note_index) == note_index > NUM_NOTES

\* note_index >= 32: the sequence has run past its last note
PastEnd(note_index) == note_index >= NUM_NOTES

\* BelowFloor on a synthesizer without a tempo floor
BelowFloorNever(samples_per_note) == FALSE

\* if (c->samples_per_note < 183)
BelowFloor(samples_per_note) == samples_per_note < SAMPLES_PER_SPEED

\* samples_per_note as lines 701-702 leave it for a sequence of that speed
SamplesForSpeed(speed) ==
  IF BelowFloor(speed * SAMPLES_PER_SPEED)
  THEN SAMPLES_PER_SPEED ELSE speed * SAMPLES_PER_SPEED

\* StopChannel setting the flag
StopChannelActivates(c) == [c EXCEPT !.active = TRUE]

\* StopChannel dropping the sequence and leaving the flag
StopChannelClears(c) == [c EXCEPT !.sfx = NULL]

\* StopChannel flipping the flag
StopChannelToggles(c) == [c EXCEPT !.active = ~c.active]

\* c->active = false, the stop of one channel
StopChannel(c) == [c EXCEPT !.active = FALSE]

\* AtLoopEnd on a synthesizer that never loops
AtLoopEndNever(c, note_index) == FALSE

\* AtLoopEnd on a synthesizer that takes every note for the end of a loop
AtLoopEndAlways(c, note_index) == TRUE

\* c->looping && c->note_index >= c->sfx->loop_end
AtLoopEnd(c, note_index) == c.looping /\ note_index >= Sfx(c.sfx).loop_end

\* EndOfSfx without its write
EndOfSfxStaysActive(c) == c

\* c->active = false, at the end of a sequence that does not loop
EndOfSfx(c) == [c EXCEPT !.active = FALSE]

\* AfterVolume with a rest stopping the channel
AfterVolumeRestStops(pitch, volume) ==
  IF pitch < NUM_PITCHES /\ volume > 0 THEN 749 ELSE 754

\* the line thumbycolor_audio_update goes to once it has loaded a note's
\* volume: the new phase_inc, the rest, or the stop
AfterVolume(pitch, volume) ==
  IF Audible(pitch, volume) THEN 749
  ELSE IF volume = 0 THEN 752
  ELSE 754

\* the write of thumbycolor_sfx at line p.line (play, or the stop-all loop),
\* and the line of its next write: [chans, pc]
SfxWrite(chans, p) ==
  LET ch == p.channel
      c  == chans[ch]
      to(l) == [p EXCEPT !.line = l]
  IN  CASE p.line = 685 ->
             [chans |-> [chans EXCEPT ![ch].active = FALSE],
              pc |-> IF ch + 1 < AUDIO_NUM_CHANNELS
                     THEN [p EXCEPT !.channel = ch + 1] ELSE Idle]
        [] p.line = 693 ->
             [chans |-> [chans EXCEPT ![ch].sfx = p.n], pc |-> to(694)]
        [] p.line = 694 ->
             [chans |-> [chans EXCEPT ![ch].note_index = 0], pc |-> to(695)]
        [] p.line = 695 ->
             [chans |-> [chans EXCEPT ![ch].sample_count = 0], pc |-> to(696)]
        [] p.line = 696 ->
             [chans |-> [chans EXCEPT ![ch].phase = Word(0, 0)], pc |-> to(701)]
        [] p.line = 701 ->
             LET spn == Sfx(c.sfx).speed * SAMPLES_PER_SPEED
             IN  [chans |-> [chans EXCEPT ![ch].samples_per_note = spn],
                  pc |-> IF BelowFloor(spn) THEN to(702) ELSE to(706)]
        [] p.line = 702 ->
             [chans |-> [chans EXCEPT ![ch].samples_per_note = SAMPLES_PER_SPEED],
              pc |-> to(706)]
        [] p.line = 706 ->
             [chans |-> [chans EXCEPT ![ch].waveform = Note(c.sfx, 0, 1)], pc |-> to(707)]
        [] p.line = 707 ->
             LET v == Note(c.sfx, 0, 2)
             IN  [chans |-> [chans EXCEPT ![ch].volume = v],
                  pc |-> IF Audible(Note(c.sfx, 0, 0), v) THEN to(712) ELSE to(715)]
        [] p.line = 712 ->
             [chans |-> [chans EXCEPT ![ch].phase_inc = PhaseInc(Note(c.sfx, 0, 0))],
              pc |-> to(713)]
        [] p.line = 713 ->
             [chans |-> [chans EXCEPT ![ch].active = TRUE], pc |-> to(719)]
        [] p.line = 715 ->
             [chans |-> [chans EXCEPT ![ch].active = FALSE], pc |-> to(719)]
        [] p.line = 719 ->
             [chans |-> [chans EXCEPT ![ch].looping =
                           (Sfx(c.sfx).loop_end > Sfx(c.sfx).loop_start)],
              pc |-> Idle]

\* NoteDone on a sequencer that never leaves a note
NoteDoneNever(sample_count, samples_per_note) == FALSE

\* if (c->sample_count >= c->samples_per_note)
NoteDone(sample_count, samples_per_note) == sample_count >= samples_per_note

\* Rest leaving the phase_inc of the note before
RestKeepsInc(c) == c

\* c->phase_inc = 0, for a note of volume 0
Rest(c) == [c EXCEPT !.phase_inc = 0]

\* Elapsed counting one speed step of 183 samples for a call
ElapsedPerSpeedStep(c) == c.sample_count + SAMPLES_PER_SPEED

\* c->sample_count += AUDIO_SAMPLE_RATE / 60
Elapsed(c) == c.sample_count + (AUDIO_SAMPLE_RATE \div FRAME_RATE)

\* Restart keeping the samples counted beyond the length of the note
RestartKeepsExcess(c) ==
  [c EXCEPT !.sample_count = c.sample_count - c.samples_per_note]

\* c->sample_count = 0
Restart(c) == [c EXCEPT !.sample_count = 0]

\* the write of thumbycolor_audio_update at line p.line on channel p.channel,
\* and the line of its next write: [chans, pc]
UpdateWrite(chans, p) ==
  LET ch == p.channel
      c  == chans[ch]
      to(l) == [p EXCEPT !.line = l]
  IN  CASE p.line = 728 ->
             LET sc == Elapsed(c)
             IN  [chans |-> [chans EXCEPT ![ch].sample_count = sc],
                  pc |-> IF NoteDone(sc, c.samples_per_note) THEN to(731)
                         ELSE NextChannel(chans, ch, p)]
        [] p.line = 731 ->
             [chans |-> [chans EXCEPT ![ch] = Restart(c)], pc |-> to(732)]
        [] p.line = 732 ->
             LET ni == c.note_index + 1
             IN  [chans |-> [chans EXCEPT ![ch].note_index = ni],
                  pc |-> IF AtLoopEnd(c, ni) THEN to(736)
                         ELSE IF PastEnd(ni) THEN to(738)
                         ELSE to(744)]
        [] p.line = 736 ->
             [chans |-> [chans EXCEPT ![ch].note_index = Sfx(c.sfx).loop_start],
              pc |-> to(744)]
        [] p.line = 738 ->
             [chans |-> [chans EXCEPT ![ch] = EndOfSfx(c)],
              pc |-> NextChannel(chans, ch, p)]
        [] p.line = 744 ->
             [chans |-> [chans EXCEPT ![ch].waveform = Note(c.sfx, c.note_index, 1)],
              pc |-> to(745)]
        [] p.line = 745 ->
             LET v == Note(c.sfx, c.note_index, 2)
                 pitch == Note(c.sfx, c.note_index, 0)
             IN  [chans |-> [chans EXCEPT ![ch].volume = v],
                  pc |-> to(AfterVolume(pitch, v))]
        [] p.line = 749 ->
             [chans |-> [chans EXCEPT ![ch].phase_inc =
                           PhaseInc(Note(c.sfx, c.note_index, 0))],
              pc |-> NextChannel(chans, ch, p)]
        [] p.line = 752 ->
             [chans |-> [chans EXCEPT ![ch] = Rest(c)],
              pc |-> NextChannel(chans, ch, p)]
        [] p.line = 754 ->
             [chans |-> [chans EXCEPT ![ch].active = FALSE],
              pc |-> NextChannel(chans, ch, p)]

----------------------------------------------------------------------------
(* Operations *)

\* thumbycolor_audio_init, with the static initialisers of the file
Init ==
  /\ audio_channels = [ch \in Channels |-> ZeroChannel]
  /\ master_volume = INIT_MASTER_VOLUME
  /\ lfsr = LFSR_SEED
  /\ pc = Idle
  /\ out = PWM_CENTER
  /\ last = "init"
  /\ calls = 0
  /\ samples = 0

\* the main loop calls thumbycolor_sfx(n, channel): its tests, and its first write
SfxCall(n, channel) ==
  /\ pc.op = "idle"
  /\ LET kind == SfxKind(n, channel)
     IN  /\ last' = kind
         /\ CASE kind = "stop" ->
                   /\ audio_channels' = [audio_channels EXCEPT
                                           ![channel] = StopChannel(audio_channels[channel])]
                   /\ pc' = Idle
              [] kind = "stop_all" ->
                   LET w == SfxWrite(audio_channels,
                                     At("stop_all", 685, n, 0, 0, FALSE))
                   IN  audio_channels' = w.chans /\ pc' = w.pc
              [] kind = "play" ->
                   LET w == SfxWrite(audio_channels,
                                     At("play", 693, n, channel,
                                        audio_channels[channel].phase_inc, FALSE))
                   IN  audio_channels' = w.chans /\ pc' = w.pc
              [] OTHER ->
                   UNCHANGED <<audio_channels, pc>>
  /\ UNCHANGED <<master_volume, lfsr, out, samples>>

\* the next write of a thumbycolor_sfx call in progress
SfxStep ==
  /\ pc.op \in {"play", "stop_all"}
  /\ LET w == SfxWrite(audio_channels, pc)
     IN  audio_channels' = w.chans /\ pc' = w.pc
  /\ last' = pc.op
  /\ UNCHANGED <<master_volume, lfsr, out, samples>>

\* the main loop calls thumbycolor_audio_update: up to its first write
UpdateCall ==
  /\ pc.op = "idle"
  /\ LET ch == NextVisited(audio_channels, 0)
     IN  IF ch >= AUDIO_NUM_CHANNELS
         THEN UNCHANGED <<audio_channels, pc>>
         ELSE LET w == UpdateWrite(audio_channels,
                                   At("update", 728, 0, ch, 0, FALSE))
              IN  audio_channels' = w.chans /\ pc' = w.pc
  /\ last' = "update"
  /\ UNCHANGED <<master_volume, lfsr, out, samples>>

\* the next write of a thumbycolor_audio_update call in progress
UpdateStep ==
  /\ pc.op = "update"
  /\ LET w == UpdateWrite(audio_channels, pc)
     IN  audio_channels' = w.chans /\ pc' = w.pc
  /\ last' = "update"
  /\ UNCHANGED <<master_volume, lfsr, out, samples>>

\* thumbycolor_set_volume(volume)
SetVolume(volume) ==
  /\ pc.op = "idle"
  /\ master_volume' = volume
  /\ last' = "set_volume"
  /\ UNCHANGED <<audio_channels, lfsr, pc, out, samples>>

\* audio_timer_callback: one sample generated and written to the PWM
Mixer ==
  /\ LET r == GenerateSample(audio_channels, lfsr, master_volume)
     IN  /\ audio_channels' = r.chans
         /\ lfsr' = r.lfsr
         /\ out' = r.sample
  /\ pc' = IF pc.op = "idle" THEN pc ELSE [pc EXCEPT !.irq = TRUE]
  /\ last' = "mix"
  /\ samples' = samples + 1
  /\ UNCHANGED <<master_volume, calls>>

----------------------------------------------------------------------------
(* Spec: every call, with any arguments, a bounded number of calls *)

MaxCalls == 2

MaxSamples == 2

SfxArgs == {-3, -2, -1, 8} \cup (0 .. (NUM_SFX - 1))

\* the first and the last channel, and the two indices next to the range
ChannelArgs == {-1, 0, AUDIO_NUM_CHANNELS - 1, AUDIO_NUM_CHANNELS}

VolumeArgs == {0, 128, 255}

Next ==
  \/ \E n \in SfxArgs, channel \in ChannelArgs :
       calls < MaxCalls /\ SfxCall(n, channel) /\ calls' = calls + 1
  \/ calls < MaxCalls /\ UpdateCall /\ calls' = calls + 1
  \/ \E volume \in VolumeArgs :
       calls < MaxCalls /\ SetVolume(volume) /\ calls' = calls + 1
  \/ SfxStep /\ UNCHANGED calls
  \/ UpdateStep /\ UNCHANGED calls
  \/ samples < MaxSamples /\ Mixer

Spec == Init /\ [][Next]_vars

----------------------------------------------------------------------------
(* SpecSolo: one voice.  One sequence is played, on the first or the last  *)
(* channel; updates, stops and stop-alls follow in any number and order.   *)

MaxSeqSamples == 1

NothingPlayed == \A d \in Channels : audio_channels[d].sfx = NULL

SoloSfxArgs == {-2, -1} \cup (0 .. (NUM_SFX - 1))

SoloChannelArgs == {0, AUDIO_NUM_CHANNELS - 1}

NextSolo ==
  \/ \E n \in SoloSfxArgs, channel \in SoloChannelArgs :
       /\ SfxKind(n, channel) = "play" => NothingPlayed
       /\ SfxCall(n, channel)
       /\ UNCHANGED calls
  \/ UpdateCall /\ UNCHANGED calls
  \/ SfxStep /\ UNCHANGED calls
  \/ UpdateStep /\ UNCHANGED calls
  \/ samples < MaxSeqSamples /\ Mixer

SpecSolo == Init /\ [][NextSolo]_vars

(* SpecSeq: one sequence is played on one channel, and from then on the    *)
(* main loop only calls thumbycolor_audio_update, once per iteration       *)
(* (main_thumbycolor.c, the while (1) loop): a call in progress runs on,   *)
(* and the next call is made.                                              *)

NextSeq ==
  \/ \E n \in 0 .. (NUM_SFX - 1), channel \in {0, AUDIO_NUM_CHANNELS - 1} :
       /\ NothingPlayed
       /\ SfxCall(n, channel)
       /\ UNCHANGED calls
  \/ UpdateCall /\ UNCHANGED calls
  \/ SfxStep /\ UNCHANGED calls
  \/ UpdateStep /\ UNCHANGED calls
  \/ samples < MaxSeqSamples /\ Mixer

SpecSeq ==
  /\ Init
  /\ [][NextSeq]_vars
  /\ WF_vars(SfxStep /\ UNCHANGED calls)
  /\ WF_vars(UpdateStep /\ UNCHANGED calls)
  /\ WF_vars(UpdateCall /\ UNCHANGED calls)

----------------------------------------------------------------------------
(* SpecFirst: one sequence is played on one channel and the main loop      *)
(* then calls thumbycolor_audio_update once per iteration; calls counts    *)
(* the update calls made since the play.                                   *)

MaxUpdates == 17

NextFirst ==
  \/ \E n \in 0 .. (NUM_SFX - 1), channel \in {0, AUDIO_NUM_CHANNELS - 1} :
       /\ NothingPlayed
       /\ SfxCall(n, channel)
       /\ UNCHANGED calls
  \/ /\ ~NothingPlayed
     /\ calls < MaxUpdates
     /\ UpdateCall
     /\ calls' = calls + 1
  \/ SfxStep /\ UNCHANGED calls
  \/ UpdateStep /\ UNCHANGED calls
  \/ samples < MaxSeqSamples /\ Mixer

SpecFirst == Init /\ [][NextFirst]_vars

----------------------------------------------------------------------------
(* SpecMix: the mixer on the channel states play and update leave behind.  *)

MaxMixSamples == 1

\* max(183, speed * 183), as lines 701-702 leave it
SamplesPerNote(n) ==
  IF Sfx(n).speed * SAMPLES_PER_SPEED < SAMPLES_PER_SPEED
  THEN SAMPLES_PER_SPEED ELSE Sfx(n).speed * SAMPLES_PER_SPEED

\* the phase_inc the last write of a note change leaves for note i of sequence n
NoteInc(n, i) ==
  IF Audible(Note(n, i, 0), Note(n, i, 2)) THEN PhaseInc(Note(n, i, 0)) ELSE 0

\* channel state after thumbycolor_sfx(n, ch), k timer interrupts on note 0
\* and the updates that bring it to the start of note i (active), or these
\* and a stop (~active)
MixChannel(n, i, k, active) ==
  LET ph == PhaseInc(Note(n, 0, 0)) * k
  IN  [sfx |-> n, note_index |-> i, sample_count |-> 0,
       samples_per_note |-> SamplesPerNote(n),
       phase |-> Word(ph \div UINT16, ph % UINT16),
       phase_inc |-> NoteInc(n, i),
       volume |-> Note(n, i, 2), waveform |-> Note(n, i, 1),
       active |-> active,
       looping |-> (Sfx(n).loop_end > Sfx(n).loop_start)]

MixNoise    == MixChannel(1, 0, 0, TRUE)       \* noise, volume 7
MixSquare   == MixChannel(3, 0, 1, TRUE)       \* square, volume 7, high
MixTriangle == MixChannel(3, 1, 3000, TRUE)    \* triangle, volume 7, phase above 2^24
MixRest     == MixChannel(1, 24, 0, TRUE)      \* a rest: active, volume 0
MixStopped  == MixChannel(2, 1, 5, FALSE)      \* pulse, volume 7, stopped
MixSaw      == MixChannel(0, 0, 10, TRUE)      \* saw, volume 3

MixConfigs ==
  {ZeroChannel, MixNoise, MixSquare, MixTriangle, MixRest, MixStopped, MixSaw}

InitMix ==
  /\ audio_channels \in [Channels -> MixConfigs]
  /\ audio_channels[2] \in {ZeroChannel, MixNoise, MixSaw}
  /\ audio_channels[3] \in {ZeroChannel, MixSquare, MixRest}
  /\ master_volume \in 0 .. 255
  /\ lfsr \in {LFSR_SEED, LfsrNext(LFSR_SEED)}
  /\ pc = Idle
  /\ out = PWM_CENTER
  /\ last = "init"
  /\ calls = 0
  /\ samples = 0

NextMix ==
  \/ \E volume \in {0, 255} : SetVolume(volume) /\ UNCHANGED calls
  \/ samples < MaxMixSamples /\ Mixer

SpecMix == InitMix /\ [][NextMix]_vars

----------------------------------------------------------------------------
(* SpecStop: channels in the states play and update leave behind, on which *)
(* the main loop stops channels, replays a sequence and calls              *)
(* thumbycolor_audio_update, calls counting the update calls.              *)

MaxStopUpdates == 1

InitStop ==
  /\ master_volume = INIT_MASTER_VOLUME
  /\ lfsr = LFSR_SEED
  /\ audio_channels \in [Channels -> MixConfigs]
  /\ audio_channels[0] \in {MixNoise, MixTriangle}
  /\ audio_channels[1] \in {MixSaw, MixStopped}
  /\ audio_channels[2] \in {ZeroChannel, MixNoise}
  /\ audio_channels[3] \in {MixSquare, MixRest}
  /\ pc = Idle
  /\ out = PWM_CENTER
  /\ last = "init"
  /\ calls = 0
  /\ samples = 0

NextStop ==
  \/ \E channel \in Channels : SfxCall(-1, channel) /\ UNCHANGED calls
  \/ \E n \in {1, 6} : SfxCall(n, 0) /\ UNCHANGED calls
  \/ /\ calls < MaxStopUpdates
     /\ UpdateCall
     /\ calls' = calls + 1
  \/ SfxStep /\ UNCHANGED calls
  \/ UpdateStep /\ UNCHANGED calls
  \/ samples < MaxMixSamples /\ Mixer

SpecStop == InitStop /\ [][NextStop]_vars

----------------------------------------------------------------------------
(* SpecWave: the switch of audio_generate_sample as a function of the      *)
(* waveform id, the 32-bit phase and the LFSR, evaluated on channel 0 for  *)
(* inputs drawn from the edges of their ranges.                            *)

MaxWaveSteps == 2

\* 16-bit halves of the phases tried: around 0, the triangle's apex, the duty
\* cycles, the byte and word wraps and the phaser's offset of 8192
PhaseHalves == {0, 1, 127, 128, 255, 256, 16384, 32767, 32768, 57344, 65535}

LfsrStates == {0, 1, LFSR_SEED, 32768, 65535}

InitWave ==
  /\ \E w \in 0 .. 7, hi \in PhaseHalves, lo \in PhaseHalves :
       audio_channels =
         [ch \in Channels |->
            IF ch = 0
            THEN [ZeroChannel EXCEPT !.waveform = w, !.phase = Word(hi, lo),
                                     !.volume = 7, !.active = TRUE]
            ELSE ZeroChannel]
  /\ lfsr \in LfsrStates
  /\ master_volume = INIT_MASTER_VOLUME
  /\ pc = Idle
  /\ out = PWM_CENTER
  /\ last = "init"
  /\ calls = 0
  /\ samples = 0

\* the switch on c->waveform for channel 0: the value it leaves in sample
EvaluateWaveform ==
  /\ samples < MaxWaveSteps
  /\ out' = WaveSample(audio_channels[0].waveform, audio_channels[0].phase, lfsr)
  /\ lfsr' = IF audio_channels[0].waveform = 6 THEN LfsrNext(lfsr) ELSE lfsr
  /\ last' = "wave"
  /\ samples' = samples + 1
  /\ UNCHANGED <<audio_channels, master_volume, pc, calls>>

NextWave == EvaluateWaveform

SpecWave == InitWave /\ [][NextWave]_vars

-----------------------------------------------------------------------------
(* SpecGolden: from the state thumbycolor_audio_init leaves, the noise     *)
(* sequence 1 is played on channel 0, the master volume is set at most     *)
(* once before the first sample, and then timer interrupts and main-loop   *)
(* updates interleave in every order.  samples counts the interrupts and   *)
(* calls the updates.                                                      *)

MaxGolden == 8

MaxGoldenUpdates == 3

NextGolden ==
  \/ /\ NothingPlayed
     /\ SfxCall(1, 0)
     /\ UNCHANGED calls
  \/ SfxStep /\ UNCHANGED calls
  \/ \E volume \in VolumeArgs :
       /\ last = "play"
       /\ samples = 0
       /\ SetVolume(volume)
       /\ UNCHANGED calls
  \/ /\ ~NothingPlayed
     /\ calls < MaxGoldenUpdates
     /\ UpdateCall
     /\ calls' = calls + 1
  \/ UpdateStep /\ UNCHANGED calls
  \/ /\ audio_channels[0].active
     /\ samples < MaxGolden
     /\ Mixer

SpecGolden == Init /\ [][NextGolden]_vars

-----------------------------------------------------------------------------
(* SpecPerm: the mixer on every placement of channel states into the four  *)
(* slots, two noise channels of different volumes among them.              *)

MaxPermSamples == 1

MixNoiseSoft == MixChannel(1, 18, 0, TRUE)     \* noise, volume 3

PermConfigs == {ZeroChannel, MixNoise, MixNoiseSoft, MixSquare, MixSaw, MixRest}

InitPerm ==
  /\ audio_channels \in [Channels -> PermConfigs]
  /\ master_volume \in {0, INIT_MASTER_VOLUME, 255}
  /\ lfsr \in {LFSR_SEED, LfsrNext(LFSR_SEED)}
  /\ pc = Idle
  /\ out = PWM_CENTER
  /\ last = "init"
  /\ calls = 0
  /\ samples = 0

NextPerm == samples < MaxPermSamples /\ Mixer

SpecPerm == InitPerm /\ [][NextPerm]_vars

-----------------------------------------------------------------------------
(* SpecPhase: timer interrupts on a channel that has played one note for   *)
(* any number of samples.  A looping sequence never resets the phase, so   *)
(* the 32-bit accumulator runs through every multiple of the note's        *)
(* phase_inc, the ones past 2^16, past 2^24 and next to 2^32 included.     *)

MaxPhaseSamples == 3

\* sequence and note: triangle, 50% square, 25% pulse, the two saws, noise
PhaseNotes == {<<4, 1>>, <<3, 0>>, <<4, 0>>, <<0, 0>>, <<3, 2>>, <<1, 0>>}

\* numbers of samples taken on the note; a negative count k stands for the
\* count that leaves the accumulator -k increments short of wrapping
PhaseCounts == {-2, -1, 0, 1, 2, 4, 8, 16, 32, 64, 128, 3000, 50000}

\* inc * k modulo 2^32 as the accumulator holds it
PhaseTimes(inc, k) ==
  LET m == inc * k
      q == (0 - m) - 1
  IN  IF m >= 0 THEN Word(m \div UINT16, m % UINT16)
      ELSE Word((UINT16 - 1) - (q \div UINT16), (UINT16 - 1) - (q % UINT16))

InitPhase ==
  /\ \E note \in PhaseNotes, k \in PhaseCounts :
       LET c == MixChannel(note[1], note[2], 0, TRUE)
       IN  audio_channels \in
             {[ch \in Channels |->
                 CASE ch = 0 -> [c EXCEPT !.phase = PhaseTimes(c.phase_inc, k)]
                   [] ch = 1 -> other
                   [] OTHER  -> ZeroChannel] :
              other \in {ZeroChannel, MixRest, MixStopped, MixNoise}}
  /\ master_volume \in {INIT_MASTER_VOLUME, 255}
  /\ lfsr = LFSR_SEED
  /\ pc = Idle
  /\ out = PWM_CENTER
  /\ last = "init"
  /\ calls = 0
  /\ samples = 0

NextPhase == samples < MaxPhaseSamples /\ Mixer

SpecPhase == InitPhase /\ [][NextPhase]_vars

-----------------------------------------------------------------------------
(* SpecSpeed: lines 698-702 and the counting of thumbycolor_audio_update   *)
(* as a function of the speed byte: channel 0 holds the first note of      *)
(* sequence 7 with the samples_per_note of a speed drawn from 0 .. 255,    *)
(* and the main loop calls the update until the note is left; calls        *)
(* counts the update calls.                                                *)

MaxHeld == 128

Speeds == 0 .. (UINT8 - 1)

InitSpeed ==
  /\ \E speed \in Speeds :
       audio_channels =
         [ch \in Channels |->
            IF ch = 0
            THEN [MixChannel(7, 0, 0, TRUE) EXCEPT
                    !.samples_per_note = SamplesForSpeed(speed)]
            ELSE ZeroChannel]
  /\ master_volume = INIT_MASTER_VOLUME
  /\ lfsr = LFSR_SEED
  /\ pc = Idle
  /\ out = PWM_CENTER
  /\ last = "init"
  /\ calls = 0
  /\ samples = 0

NextSpeed ==
  \/ /\ audio_channels[0].note_index = 0
     /\ calls < MaxHeld
     /\ UpdateCall
     /\ calls' = calls + 1
  \/ UpdateStep /\ UNCHANGED calls

SpecSpeed == InitSpeed /\ [][NextSpeed]_vars

-----------------------------------------------------------------------------
(* SpecFrame: the calls of the main loop other than the update, on four    *)
(* channels that all hold a sequence: plays, stops and stop-alls on a      *)
(* playing and on a stopped channel, and thumbycolor_set_volume with every *)
(* value of its uint8_t argument, called while the volume is the initial   *)
(* one.  calls counts the calls.                                           *)

MaxFrameCalls == 2

MaxFrameSamples == 1

FrameSfxArgs == {-2, -1, 1, 6}

\* a playing channel and a stopped one
FrameChannelArgs == {0, 2}

FrameVolumeArgs == 0 .. (UINT8 - 1)

InitFrame ==
  /\ audio_channels =
       [ch \in Channels |->
          CASE ch = 0 -> MixNoise
            [] ch = 1 -> MixSaw
            [] ch = 2 -> MixStopped
            [] OTHER  -> MixSquare]
  /\ master_volume = INIT_MASTER_VOLUME
  /\ lfsr = LFSR_SEED
  /\ pc = Idle
  /\ out = PWM_CENTER
  /\ last = "init"
  /\ calls = 0
  /\ samples = 0

NextFrame ==
  \/ \E n \in FrameSfxArgs, channel \in FrameChannelArgs :
       calls < MaxFrameCalls /\ SfxCall(n, channel) /\ calls' = calls + 1
  \/ \E volume \in FrameVolumeArgs :
       /\ calls < MaxFrameCalls
       /\ master_volume = INIT_MASTER_VOLUME
       /\ SetVolume(volume)
       /\ calls' = calls + 1
  \/ SfxStep /\ UNCHANGED calls
  \/ samples < MaxFrameSamples /\ Mixer

SpecFrame == InitFrame /\ [][NextFrame]_vars

-----------------------------------------------------------------------------
(* SpecLoop: the iterations of the main loop of main().  The first         *)
(* iteration takes the game branch and game_update plays a sequence on     *)
(* channel 0; every later iteration takes the branch its buttons select:   *)
(* a test screen while the left bumper or the menu button is held, which   *)
(* calls nothing of the synthesizer, or the game branch, which calls       *)
(* thumbycolor_audio_update.  calls counts the iterations completed.       *)

MaxLoops == 20

\* the branches of lines 433-441: a test screen is drawn and sent
TestFrame ==
  /\ pc.op = "idle"
  /\ last = "vsync"
  /\ last' = "test"
  /\ UNCHANGED <<audio_channels, master_volume, lfsr, pc, out, samples>>

\* thumbycolor_wait_vsync() at the end of an iteration
WaitVsync ==
  /\ pc.op = "idle"
  /\ last \in {"update", "test"}
  /\ last' = "vsync"
  /\ UNCHANGED <<audio_channels, master_volume, lfsr, pc, out, samples>>

NextLoop ==
  \/ \E n \in 0 .. (NUM_SFX - 1) :
       /\ last = "init"
       /\ SfxCall(n, 0)
       /\ UNCHANGED calls
  \/ SfxStep /\ UNCHANGED calls
  \/ /\ last \in {"play", "vsync"}
     /\ calls < MaxLoops
     /\ UpdateCall
     /\ UNCHANGED calls
  \/ UpdateStep /\ UNCHANGED calls
  \/ /\ calls < MaxLoops
     /\ TestFrame
     /\ UNCHANGED calls
  \/ WaitVsync /\ calls' = calls + 1

SpecLoop == Init /\ [][NextLoop]_vars

-----------------------------------------------------------------------------
(* SpecNoise: the noise sequence 1 on channel 0 from the seed, and one     *)
(* gen_noise call per timer interrupt, for more interrupts than the LFSR   *)
(* has states.                                                             *)

MaxNoiseSamples == 65600

InitNoise ==
  /\ audio_channels = [ch \in Channels |-> IF ch = 0 THEN MixNoise ELSE ZeroChannel]
  /\ master_volume = INIT_MASTER_VOLUME
  /\ lfsr = LFSR_SEED
  /\ pc = Idle
  /\ out = PWM_CENTER
  /\ last = "init"
  /\ calls = 0
  /\ samples = 0

NextNoise == samples < MaxNoiseSamples /\ Mixer

SpecNoise == InitNoise /\ [][NextNoise]_vars

----------------------------------------------------------------------------
(* Properties *)

\* the step is one timer interrupt
MixerStep == samples' = samples + 1

\* the step is a thumbycolor_sfx(n, channel) call, from its entry
SfxCalled(n, channel) == pc.op = "idle" /\ SfxCall(n, channel)

\* no channel would be let into the mix
AllSilent ==
  \A c \in Channels : ~audio_channels[c].active \/ audio_channels[c].volume = 0

AllInactive == \A c \in Channels : ~audio_channels[c].active

\* C1: in every reachable state, the states between two writes of a play or
\* an update in progress included, the sample the mixer returned is an
\* integer in 0 .. 255.
C1_SampleIsByte == out \in 0 .. 255

\* a sample other than silence, generated in the middle of a play
C1_Witness ==
  /\ last = "mix"
  /\ pc.op = "play"
  /\ pc.irq
  /\ out /= PWM_CENTER

\* C2: a mixer invocation on a state in which every channel is inactive or has
\* volume 0 returns exactly 128, whatever the master volume, the phases, the
\* waveforms and the LFSR.
C2_SilenceIsCentre == [][(MixerStep /\ AllSilent) => out' = 128]_vars

\* silence mixed at full master volume, over an active rest and a stopped
\* channel of volume 7
C2_Witness ==
  /\ last = "mix"
  /\ AllSilent
  /\ master_volume = 255
  /\ \E c \in Channels : audio_channels[c].active /\ audio_channels[c].volume = 0
  /\ \E c \in Channels : ~audio_channels[c].active /\ audio_channels[c].volume = 7
  /\ out = 128

\* C3: a stop-all request, thumbycolor_sfx(-2, channel) with any channel
\* argument, returns with active = false on all 4 channels, and the mixer
\* sample that follows it is 128.
C3_StopAllAnyChannel ==
  [][/\ (\E channel \in ChannelArgs : SfxCalled(-2, channel) /\ pc'.op = "idle")
          => AllInactive'
     /\ (pc.op = "stop_all" /\ SfxStep /\ pc'.op = "idle") => AllInactive'
     /\ (MixerStep /\ pc.op = "idle" /\ last \in {"stop_all", "bad_channel"}
           /\ AllInactive) => out' = 128]_vars

\* C4: while the master volume is 0, every mixer invocation returns exactly
\* 128, whatever channels are active and whatever their waveform, volume and
\* phase.
C4_MutedIsCentre == [][(MixerStep /\ master_volume = 0) => out' = 128]_vars

\* a sample taken at master volume 0 with a channel of volume 7 in the mix
C4_Witness ==
  /\ last = "mix"
  /\ master_volume = 0
  /\ \E c \in Channels : audio_channels[c].active /\ audio_channels[c].volume = 7
  /\ out = 128

\* C5: thumbycolor_sfx(n, channel) with n >= -1 and the channel outside 0..3,
\* or with a channel in 0..3 and an n that is neither in 0..7 nor -1 nor -2,
\* changes nothing: channels, master volume and LFSR are as before the call.
C5_IgnoredCallChangesNothing ==
  [][\A n \in SfxArgs, channel \in ChannelArgs :
       ( /\ SfxCalled(n, channel)
         /\ \/ n >= -1 /\ (channel < 0 \/ channel > 3)
            \/ channel \in 0 .. 3 /\ n \notin (0 .. 7) \cup {-1, -2} )
       => (synth' = synth /\ pc' = pc)]_vars

\* an ignored call made while a channel is playing
C5_Witness ==
  /\ last \in {"bad_channel", "bad_id"}
  /\ \E c \in Channels : audio_channels[c].active

\* what C6 says of channel record c when play(n, channel) returns, for the
\* phase_inc an inaudible first note leaves (the mixer may have advanced the
\* phase once it ran during the call)
PlayResult(c, n, irq, silent_inc) ==
  LET pitch  == hyperspace_sfx[n + 1].notes[1][1]
      wave   == hyperspace_sfx[n + 1].notes[1][2]
      volume == hyperspace_sfx[n + 1].notes[1][3]
      heard  == pitch < 64 /\ volume > 0
  IN  /\ c.sfx = n
      /\ c.note_index = 0
      /\ c.sample_count = 0
      /\ ~irq => c.phase = [hi |-> 0, lo |-> 0]
      /\ c.waveform = wave
      /\ c.volume = volume
      /\ c.phase_inc = IF heard
                       THEN (p8_freq_table[pitch + 1] * 65536) \div 22050
                       ELSE silent_inc
      /\ c.active = heard
      /\ c.looping = (hyperspace_sfx[n + 1].loop_end > hyperspace_sfx[n + 1].loop_start)

\* the step is the return of a play
PlayReturns == pc.op = "play" /\ pc'.op = "idle"

NoteAudible(n, i) ==
  /\ hyperspace_sfx[n + 1].notes[i + 1][1] < 64
  /\ hyperspace_sfx[n + 1].notes[i + 1][3] > 0

\* library sequence n has been played on channel c
Playing(c, n) == audio_channels[c].sfx = n

\* channel c sounds a note after the first of its sequence
SoundsLaterNote(c) ==
  /\ audio_channels[c].active
  /\ audio_channels[c].note_index > 0
  /\ audio_channels[c].volume > 0
  /\ audio_channels[c].phase_inc > 0

\* C7: after play(n, c) of a sequence whose first note is not audible and
\* that has an audible note later, the update calls that follow advance
\* channel c until it is active on a later, audible note.
C7_UpdateAdvancesSilentStart ==
  \A c \in Channels, n \in 0 .. 7 :
    ( /\ pc.op = "idle"
      /\ Playing(c, n)
      /\ ~NoteAudible(n, 0)
      /\ \E i \in 1 .. 31 : NoteAudible(n, i) )
    ~> SoundsLaterNote(c)

\* the step takes channel c from active to inactive
Deactivated(c) == audio_channels[c].active /\ ~audio_channels'[c].active

\* the step belongs to thumbycolor_audio_update working on channel c
UpdateOn(c) ==
  /\ ~MixerStep
  /\ last' = "update"
  /\ pc.op = "update"
  /\ pc.channel = c

\* the causes C8 names: a stop of c, a stop-all, an update that has moved c
\* past note 31 of a sequence without a loop range, a play on c
NamedCause(c) ==
  \/ SfxCalled(-1, c)
  \/ ~MixerStep /\ last' = "stop_all"
  \/ /\ UpdateOn(c)
     /\ audio_channels[c].note_index >= 32
     /\ ~(hyperspace_sfx[audio_channels[c].sfx + 1].loop_end
            > hyperspace_sfx[audio_channels[c].sfx + 1].loop_start)
  \/ ~MixerStep /\ last' = "play" /\ pc.op = "play" /\ pc.channel = c

\* channel c is on a note, of pitch and volume as read from its sequence
OnNote(c) ==
  /\ audio_channels[c].sfx /= -1
  /\ audio_channels[c].note_index \in 0 .. 31

NotePitch(c) ==
  hyperspace_sfx[audio_channels[c].sfx + 1].notes[audio_channels[c].note_index + 1][1]

NoteVolume(c) ==
  hyperspace_sfx[audio_channels[c].sfx + 1].notes[audio_channels[c].note_index + 1][3]

\* the step is the last write of an update that has moved channel c to a new note
ReachesNote(c) ==
  /\ UpdateOn(c)
  /\ OnNote(c)
  /\ audio_channels[c].volume = NoteVolume(c)
  /\ pc'.op = "idle" \/ pc'.channel /= c

C9_ActiveNoteIndexInRange ==
  pc.op = "idle" =>
    \A c \in Channels :
      audio_channels[c].active =>
        (audio_channels[c].note_index >= 0 /\ audio_channels[c].note_index < 32)

\* an update has returned after moving a channel past note 31, and left it
\* inactive
C9_Witness ==
  /\ pc.op = "idle"
  /\ last = "update"
  /\ \E c \in Channels :
       /\ audio_channels[c].sfx /= -1
       /\ audio_channels[c].note_index = 32
       /\ ~audio_channels[c].active

\* library sequence n has no loop range
NonLooping(n) ==
  ~(hyperspace_sfx[n + 1].loop_end > hyperspace_sfx[n + 1].loop_start)

\* C10: a non-looping library sequence played on channel c and followed only
\* by update calls leaves c inactive from some point on; the mixer returns
\* 128 whenever no channel is active; between calls, a channel playing
\* sequence 1 is active exactly while its note_index is in 0 .. 31.
C10_NonLoopingEnds ==
  /\ <>[](\A c \in Channels, n \in 0 .. 7 :
             (Playing(c, n) /\ NonLooping(n)) => ~audio_channels[c].active)
  /\ [][(MixerStep /\ AllInactive) => out' = 128]_vars
  /\ \A c \in Channels :
       []((pc.op = "idle" /\ Playing(c, 1)) =>
            (audio_channels[c].active <=> audio_channels[c].note_index < 32))

\* sequence 1 has run past note 31, its channel is inactive and the sample
\* mixed after that is 128
C10_Witness ==
  /\ last = "mix"
  /\ out = 128
  /\ \E c \in Channels :
       /\ audio_channels[c].sfx = 1
       /\ audio_channels[c].note_index = 32
       /\ ~audio_channels[c].active

\* library sequence n has a loop range
Looping(n) == hyperspace_sfx[n + 1].loop_end > hyperspace_sfx[n + 1].loop_start

\* C11: for a looping library sequence (0 and 4, loop 0..13) played on
\* channel c and followed only by update calls: the write that follows
\* note_index reaching loop_end sets it back to loop_start; between calls
\* note_index is in [loop_start, loop_end); once active the channel is never
\* made inactive.
C11_LoopWrapsAndStaysActive ==
  /\ [][\A c \in Channels, n \in {0, 4} :
          (Playing(c, n) /\ Looping(n)) =>
            /\ (UpdateOn(c) /\ audio_channels[c].note_index >= 13)
                 => audio_channels'[c].note_index = 0
            /\ audio_channels[c].active => audio_channels'[c].active]_vars
  /\ \A c \in Channels, n \in {0, 4} :
       []((pc.op = "idle" /\ Playing(c, n) /\ Looping(n)) =>
            /\ audio_channels[c].note_index >= hyperspace_sfx[n + 1].loop_start
            /\ audio_channels[c].note_index < hyperspace_sfx[n + 1].loop_end)

\* an update has returned after taking sequence 0 from note 12 back to note 0
C11_Witness ==
  /\ last = "update"
  /\ pc.op = "idle"
  /\ \E c \in Channels :
       /\ audio_channels[c].sfx = 0
       /\ audio_channels[c].looping
       /\ audio_channels[c].note_index = 0
       /\ audio_channels[c].sample_count = 0
       /\ audio_channels[c].volume = 3
       /\ audio_channels[c].active

\* the number of update calls, of 367 samples each, that it takes to bring
\* the elapsed samples of a note of sequence n to max(183, speed * 183)
UpdatesPerNote(n) ==
  LET spn == IF hyperspace_sfx[n + 1].speed * 183 < 183
             THEN 183 ELSE hyperspace_sfx[n + 1].speed * 183
  IN  CHOOSE k \in 1 .. 32 : k * 367 >= spn /\ (k - 1) * 367 < spn

\* C12: after play(n, c) of a sequence whose first note is audible, the
\* channel is on note 0 after every update call that leaves the elapsed
\* samples below samples_per_note, and the first update call that brings
\* them to samples_per_note leaves note_index = 1 with the waveform, the
\* volume and the derived phase_inc of note 1; for sequence 0 that is the
\* first update call after the play.
C12_FirstAdvanceLoadsNoteOne ==
  /\ UpdatesPerNote(0) = 1
  /\ \A c \in Channels, n \in 0 .. 7 :
       (pc.op = "idle" /\ Playing(c, n) /\ NoteAudible(n, 0)) =>
         /\ calls < UpdatesPerNote(n) => audio_channels[c].note_index = 0
         /\ calls = UpdatesPerNote(n) =>
              /\ audio_channels[c].note_index = 1
              /\ audio_channels[c].sample_count = 0
              /\ audio_channels[c].waveform = hyperspace_sfx[n + 1].notes[2][2]
              /\ audio_channels[c].volume = hyperspace_sfx[n + 1].notes[2][3]
              /\ audio_channels[c].phase_inc =
                   (p8_freq_table[hyperspace_sfx[n + 1].notes[2][1] + 1] * 65536) \div 22050
              /\ audio_channels[c].active

\* the third update call after play(1, c) has returned and left sequence 1
\* on its note 1 (pitch 36, noise, volume 7)
C12_Witness ==
  /\ pc.op = "idle"
  /\ last = "update"
  /\ calls = 3
  /\ \E c \in Channels :
       /\ audio_channels[c].sfx = 1
       /\ audio_channels[c].note_index = 1
       /\ audio_channels[c].phase_inc = PhaseInc(36)

\* C13: thumbycolor_sfx(-1, c) leaves channel c inactive and every other
\* field of the synthesizer as it was, and called again straight after a
\* stop, on a channel that stop left inactive, it changes nothing: two stops
\* of c in a row leave the state one stop leaves.
C13_StopTwiceIsStopOnce ==
  [][\A c \in Channels :
       SfxCalled(-1, c) =>
         /\ audio_channels' = [audio_channels EXCEPT ![c].active = FALSE]
         /\ master_volume' = master_volume
         /\ lfsr' = lfsr
         /\ (last = "stop" /\ ~audio_channels[c].active) => synth' = synth]_vars

\* a stop has returned on a channel that was in the middle of a sequence
C13_Witness ==
  /\ last = "stop"
  /\ pc.op = "idle"
  /\ \E c \in Channels :
       /\ audio_channels[c].sfx \in 0 .. 7
       /\ audio_channels[c].note_index \in 1 .. 31
       /\ audio_channels[c].volume > 0
       /\ ~audio_channels[c].active

\* the channels with channel c taken out
Without(c) == [audio_channels EXCEPT ![c] = ZeroChannel]

\* C14: thumbycolor_sfx(-1, c) leaves c inactive whatever note it was on; an
\* inactive channel is made active only by a play on it; a mixer invocation
\* changes no field of an inactive channel, its phase included, and returns
\* the sample and the LFSR it would return without that channel; no step of
\* an update changes any field of an inactive channel.
C14_StoppedStaysOut ==
  [][\A c \in Channels :
       /\ SfxCalled(-1, c) => ~audio_channels'[c].active
       /\ ~audio_channels[c].active =>
            /\ audio_channels'[c].active => (pc.op = "play" /\ pc.channel = c)
            /\ MixerStep =>
                 /\ audio_channels'[c] = audio_channels[c]
                 /\ out' = GenerateSample(Without(c), lfsr, master_volume).sample
                 /\ lfsr' = GenerateSample(Without(c), lfsr, master_volume).lfsr
            /\ (~MixerStep /\ last' = "update") =>
                 audio_channels'[c] = audio_channels[c]]_vars

\* a sample that is not silence, mixed after an update was made over a
\* channel stopped on an audible note
C14_Witness ==
  /\ last = "mix"
  /\ out /= 128
  /\ calls > 0
  /\ \E c \in Channels :
       /\ ~audio_channels[c].active
       /\ audio_channels[c].sfx \in 0 .. 7
       /\ audio_channels[c].volume > 0
       /\ audio_channels[c].phase_inc > 0
       /\ audio_channels[c] /= MixStopped

\* max(183, speed * 183)
FlooredSamples(speed) == IF speed * 183 > 183 THEN speed * 183 ELSE 183

\* C15: lines 701-702 give max(183, speed * 183), at least 183, for every
\* speed 0 .. 255; a play leaves that value, for the speed of its sequence,
\* in samples_per_note of its channel; no step outside a play on the channel,
\* of an update or of the mixer, changes samples_per_note.
C15_SamplesPerNoteFixed ==
  [][/\ PlayReturns =>
          \A speed \in 0 .. 255 :
            SamplesForSpeed(speed) = FlooredSamples(speed) /\ SamplesForSpeed(speed) >= 183
     /\ \A c \in Channels :
          /\ (PlayReturns /\ pc.channel = c) =>
               /\ audio_channels'[c].samples_per_note =
                    FlooredSamples(hyperspace_sfx[pc.n + 1].speed)
               /\ audio_channels'[c].samples_per_note >= 183
          /\ audio_channels'[c].samples_per_note /= audio_channels[c].samples_per_note
               => (pc.op = "play" /\ pc.channel = c /\ ~MixerStep)]_vars

\* sequence 7 (speed 32) was played and an update call has counted its first
\* 367 samples
C15_Witness ==
  /\ pc.op = "idle"
  /\ last = "update"
  /\ \E c \in Channels :
       /\ audio_channels[c].sfx = 7
       /\ audio_channels[c].samples_per_note = 5856
       /\ audio_channels[c].sample_count = 367

\* channel c is active on a note loaded with volume 0
Resting(c) ==
  /\ audio_channels[c].sfx /= -1
  /\ audio_channels[c].active
  /\ audio_channels[c].volume = 0

\* the step is the entry of an update call whose first visited channel is c
UpdateEnters(c) ==
  /\ pc.op = "idle"
  /\ ~MixerStep
  /\ last' = "update"
  /\ audio_channels[c].active /\ audio_channels[c].sfx /= -1
  /\ \A d \in 0 .. (c - 1) :
       ~(audio_channels[d].active /\ audio_channels[d].sfx /= -1)

\* C16: the update that brings an active channel to a note of volume 0
\* leaves it active with phase_inc 0; while the channel rests a mixer
\* invocation changes none of its fields, its phase included, and returns
\* the sample and the LFSR it would return without the channel; an update
\* call goes on counting 367 samples on it, and the rest comes to an end.
C16_RestKeepsChannel ==
  /\ [][\A c \in Channels :
          /\ (ReachesNote(c) /\ audio_channels[c].active /\ NoteVolume(c) = 0) =>
               /\ audio_channels'[c].active
               /\ audio_channels'[c].volume = 0
               /\ audio_channels'[c].phase_inc = 0
          /\ (MixerStep /\ Resting(c)) =>
               /\ audio_channels'[c] = audio_channels[c]
               /\ out' = GenerateSample(Without(c), lfsr, master_volume).sample
               /\ lfsr' = GenerateSample(Without(c), lfsr, master_volume).lfsr
          /\ (UpdateEnters(c) /\ Resting(c)) =>
               audio_channels'[c].sample_count = audio_channels[c].sample_count + 367]_vars
  /\ \A c \in Channels : []<>(~Resting(c))

\* a sample mixed over sequence 1 resting on its note 24, after an update
\* call counted 367 samples of the rest
C16_Witness ==
  /\ last = "mix"
  /\ pc.op = "idle"
  /\ out = 128
  /\ \E c \in Channels :
       /\ Resting(c)
       /\ audio_channels[c].sfx = 1
       /\ audio_channels[c].note_index = 24
       /\ audio_channels[c].phase_inc = 0
       /\ audio_channels[c].sample_count = 367

\* the channels whose waveform the mixer evaluates as noise
NoiseUsers ==
  {c \in Channels : /\ audio_channels[c].active
                    /\ audio_channels[c].volume /= 0
                    /\ audio_channels[c].waveform = 6}

\* every channel in the mix is a noise channel of volume 7, and the master
\* volume is 255: the sample is 128 + the average of (noise value - 128)
OnlyNoiseAtFull ==
  /\ master_volume = 255
  /\ NoiseUsers /= {}
  /\ \A c \in Channels :
       (audio_channels[c].active /\ audio_channels[c].volume /= 0) =>
         (audio_channels[c].waveform = 6 /\ audio_channels[c].volume = 7)

\* one step of the 16-bit LFSR with taps 0, 2, 3 and 5
NoiseStep(l) ==
  (l \div 2) + 32768 * ((l + (l \div 4) + (l \div 8) + (l \div 32)) % 2)

\* the LFSR after k steps
RECURSIVE NoiseAfter(_, _)
NoiseAfter(l, k) == IF k = 0 THEN l ELSE NoiseAfter(NoiseStep(l), k - 1)

\* the sum of (noise value - 128) over the first k values drawn from l
RECURSIVE NoiseSum(_, _)
NoiseSum(l, k) ==
  IF k = 0 THEN 0
  ELSE ((NoiseStep(l) % 256) - 128) + NoiseSum(NoiseStep(l), k - 1)

Current == audio_channels[pc.channel]

\* C18: whatever the interleaving of mixer invocations with the writes of a
\* play, a stop or an update, the reads the call in progress is about to
\* make are in bounds: the sequence it dereferences (lines 701-719 of a
\* play, every line of an update) is one of the 8 of the library, the
\* note it reads (lines 744-749 of an update) has 0 <= note_index < 32, and
\* the pitch it looks up (lines 712 and 749) is in 0 .. 63.
C18_ReadsInBounds ==
  /\ (pc.op = "play" /\ pc.line \in {701, 702, 706, 707, 712, 713, 715, 719}) =>
       Current.sfx \in 0 .. 7
  /\ (pc.op = "play" /\ pc.line = 712) =>
       hyperspace_sfx[Current.sfx + 1].notes[1][1] \in 0 .. 63
  /\ pc.op = "update" => Current.sfx \in 0 .. 7
  /\ (pc.op = "update" /\ pc.line \in {744, 745, 749, 752, 754}) =>
       Current.note_index \in 0 .. 31
  /\ (pc.op = "update" /\ pc.line = 749) =>
       hyperspace_sfx[Current.sfx + 1].notes[Current.note_index + 1][1] \in 0 .. 63

\* the mixer has interrupted an update that is about to read note 31, the
\* last of its sequence
C18_Witness ==
  /\ last = "mix"
  /\ pc.op = "update"
  /\ pc.irq
  /\ pc.line = 744
  /\ Current.note_index = 31

\* C19: in every reachable state, the states between two writes of a play
\* included, a channel with active = true has a sequence reference that is
\* not null and is one of the 8 entries of the library.
C19_ActiveHasSequence ==
  \A c \in Channels :
    audio_channels[c].active =>
      (audio_channels[c].sfx /= -1 /\ audio_channels[c].sfx \in 0 .. 7)

\* a play of sequence 7 in progress on a channel still active on the noise
\* of the sequence played before
C19_Witness ==
  /\ pc.op = "play"
  /\ pc.line = 694
  /\ Current.active
  /\ Current.sfx = 7
  /\ Current.waveform = 6

\* C20: the value the switch leaves in sample is in 0 .. 255, and so is the
\* value of each of the 8 waveform evaluations at the phase of every channel
\* and the LFSR of every state reached.
C20_WaveformIsByte ==
  /\ last = "wave" => out \in 0 .. 255
  /\ \A c \in Channels, w \in 0 .. 7 :
       WaveSample(w, audio_channels[c].phase, lfsr) \in 0 .. 255

\* the triangle evaluated at phase 2^32 - 1, where 255 - (p - 128) * 2 is
\* far below 0 before its conversion to uint8_t
C20_Witness ==
  /\ last = "wave"
  /\ audio_channels[0].waveform = 0
  /\ audio_channels[0].phase = [hi |-> 65535, lo |-> 65535]
  /\ out = 1

\* the low bytes of the first LFSR states after the seed 0xACE1
GoldenNoise ==
  <<112, 56, 156, 206, 103, 179, 89, 172, 86, 171,
    85, 42, 21, 138, 69, 34, 145, 200, 228, 114>>

\* the sample of one noise channel at volume 7 under master volume mv
GoldenSample(k, mv) == 128 + TruncDiv((GoldenNoise[k] - 128) * mv, 255)

\* C21: the synthesizer is deterministic.  Every run that plays the noise
\* sequence on channel 0 from the initial state (seed 0xACE1, channels idle,
\* master volume 200 unless set) and then takes k timer interrupts has, after
\* the k-th, the same LFSR state, the same sample and the same oscillator
\* phase, whatever way the updates were interleaved: the LFSR is the seed
\* stepped k times, the sample is the k-th of one fixed list of noise values
\* scaled by the master volume, and the phase is k phase increments.
C21_SameInputsSameStream ==
  (audio_channels[0].sfx = 1 /\ samples <= Len(GoldenNoise)) =>
     /\ lfsr = NoiseAfter(LFSR_SEED, samples)
     /\ samples > 0 => out = GoldenSample(samples, master_volume)
     /\ samples = 0 => out = PWM_CENTER
     /\ audio_channels[0].active =>
          audio_channels[0].phase.hi * UINT16 + audio_channels[0].phase.lo
            = samples * audio_channels[0].phase_inc

\* the last of the bounded run's noise samples has been taken, at a master
\* volume other than the initial one, after the first note was left
C21_Witness ==
  /\ samples = MaxGolden
  /\ master_volume = 255
  /\ out = GoldenNoise[MaxGolden]
  /\ audio_channels[0].note_index = 1
  /\ lfsr /= LFSR_SEED

\* the contributing channels: active, with a volume above 0
Contributing == {c \in Channels : audio_channels[c].active /\ audio_channels[c].volume > 0}

\* the quotient of a by b > 0, rounded toward zero
Quot(a, b) == IF a < 0 THEN 0 - ((0 - a) \div b) ELSE a \div b

\* the oscillator sample of channel c at its phase before the advance, the
\* noise channels drawing successive LFSR values in channel order
Osc(c) ==
  LET drawn == Cardinality({d \in Contributing : d < c /\ audio_channels[d].waveform = 6})
  IN  WaveSample(audio_channels[c].waveform, audio_channels[c].phase,
                 NoiseAfter(lfsr, drawn))

\* trunc((osc - 128) * volume / 7) for a contributing channel, else 0
Term(c) ==
  IF c \in Contributing THEN Quot((Osc(c) - 128) * audio_channels[c].volume, 7) ELSE 0

\* the sample the formula of the mixer gives in the current state
MixFormula ==
  LET S    == Term(0) + Term(1) + Term(2) + Term(3)
      k    == Cardinality(Contributing)
      mean == IF k = 0 THEN 0 ELSE Quot(S, k)
      o    == 128 + Quot(mean * master_volume, 255)
  IN  IF o < 0 THEN 0 ELSE IF o > 255 THEN 255 ELSE o

\* C22: the value one mixer invocation returns is 128 + trunc(trunc(S / k) *
\* master_volume / 255) clamped to 0 .. 255, S being the sum over the k
\* contributing channels of trunc((osc - 128) * volume / 7), the mean 0 when
\* k = 0, and every division truncating toward zero.
C22_MixerFormula == [][MixerStep => out' = MixFormula]_vars

\* a sample below the centre that two or more channels contributed to, under
\* a master volume that scales it
C22_Witness ==
  /\ last = "mix"
  /\ Cardinality(Contributing) >= 2
  /\ master_volume \in 1 .. 254
  /\ out \in 1 .. 127

\* the channel slots with their contents permuted by p
Permuted(p) == [c \in Channels |-> audio_channels[p[c]]]

\* the volumes of the contributing noise channels
NoiseVolumes ==
  {audio_channels[c].volume : c \in {d \in Contributing : audio_channels[d].waveform = 6}}

Plus32(phase, inc) ==
  [hi |-> (phase.hi + (IF phase.lo + inc >= 65536 THEN 1 ELSE 0)) % 65536,
   lo |-> (phase.lo + inc) % 65536]

\* C24: one mixer invocation adds phase_increment to the phase, modulo 2^32,
\* of exactly the channels that are active with volume > 0, and changes no
\* other field of any channel, nor the master volume; the LFSR changes only
\* if some contributing channel has waveform 6.
C24_MixerFrame ==
  [][MixerStep =>
       /\ \A c \in Channels :
            audio_channels'[c] =
              IF c \in Contributing
              THEN [audio_channels[c] EXCEPT
                      !.phase = Plus32(audio_channels[c].phase,
                                       audio_channels[c].phase_inc)]
              ELSE audio_channels[c]
       /\ master_volume' = master_volume
       /\ lfsr' /= lfsr =>
            \E c \in Contributing : audio_channels[c].waveform = 6]_vars

\* the accumulator of a contributing channel has wrapped past 2^32, next to
\* a rest the mixer left alone, and the LFSR is the one it started with
C24_Witness ==
  /\ last = "mix"
  /\ audio_channels[0].active
  /\ audio_channels[0].phase.hi = 0
  /\ audio_channels[0].phase.lo < audio_channels[0].phase_inc
  /\ audio_channels[0].phase_inc > 0
  /\ samples = 2
  /\ audio_channels[1] = MixRest
  /\ lfsr = LFSR_SEED

\* the sample of the mixer when channel 0 alone contributes and its
\* oscillator returns osc
SoloSample(osc) ==
  128 + Quot(Quot((osc - 128) * audio_channels[0].volume, 7) * master_volume, 255)

\* the phase of channel 0 within its oscillator period of 65536
InPeriod == audio_channels[0].phase.lo

\* C25 as claimed: at every phase reached by repeatedly adding a note's
\* phase_increment, in every period of 65536 and not only the one starting at
\* phase 0, waveform 3 returns 255 in the first half of the period and 0 in
\* the second half, and waveform 4 returns 255 in the first quarter and 0
\* otherwise.
C25_SquareEveryPeriod ==
  [][(MixerStep /\ Contributing = {0} /\ audio_channels[0].waveform \in {3, 4}) =>
       LET high == IF audio_channels[0].waveform = 3 THEN 32768 ELSE 16384
       IN  out' = SoloSample(IF InPeriod < high THEN 255 ELSE 0)]_vars

\* C25 within the first period: for phases below 65536 the two waveforms are
\* high for the first half and the first quarter of the period
C25_SquareFirstPeriod ==
  [][(MixerStep /\ Contributing = {0} /\ audio_channels[0].waveform \in {3, 4}
        /\ audio_channels[0].phase.hi = 0) =>
       LET high == IF audio_channels[0].waveform = 3 THEN 32768 ELSE 16384
       IN  out' = SoloSample(IF InPeriod < high THEN 255 ELSE 0)]_vars

\* the triangle at step q of the 256 steps of one period: up by 2 a step over
\* the first half, down by 2 a step over the second
TriangleAt(q) == IF q < 128 THEN 2 * q ELSE 255 - 2 * (q - 128)

\* C26 as claimed: at every phase reached by repeatedly adding a note's
\* phase_increment, in every period of 65536 and not only the one starting at
\* phase 0, waveform 0 rises linearly from 0 to 255 over the first half of
\* the period and falls from 255 to 0 over the second half.
C26_TriangleEveryPeriod ==
  [][(MixerStep /\ Contributing = {0} /\ audio_channels[0].waveform = 0) =>
       out' = SoloSample(TriangleAt(InPeriod \div 256))]_vars

\* C26 within the first period: for phases below 65536 the triangle rises
\* over the first half and falls over the second
C26_TriangleFirstPeriod ==
  [][(MixerStep /\ Contributing = {0} /\ audio_channels[0].waveform = 0
        /\ audio_channels[0].phase.hi = 0) =>
       out' = SoloSample(TriangleAt(InPeriod \div 256))]_vars

\* the phase of channel 0 one period of 65536 later, modulo 2^32
NextPeriod ==
  [hi |-> (audio_channels[0].phase.hi + 1) % 65536, lo |-> audio_channels[0].phase.lo]

\* C27 as claimed: every stateless waveform (0, 1, 2, 3, 4, 5, 7) is periodic
\* in the phase with period 65536: the value the switch returns at a phase
\* is the value it returns at (phase + 65536) mod 2^32, for every 32-bit
\* phase.
C27_Period65536 ==
  (last = "wave" /\ audio_channels[0].waveform \in {0, 1, 2, 3, 4, 5, 7}) =>
     out = WaveSample(audio_channels[0].waveform, NextPeriod, lfsr)

\* C27 for the waveforms built on gen_saw alone: 1, 2 and 7 have period 65536
C27_SawPeriod65536 ==
  (last = "wave" /\ audio_channels[0].waveform \in {1, 2, 7}) =>
     out = WaveSample(audio_channels[0].waveform, NextPeriod, lfsr)

\* the step is one write of a thumbycolor_audio_update call
UpdateWrites == last' = "update" /\ samples' = samples

\* the channels the step changes
Changed == {c \in Channels : audio_channels'[c] /= audio_channels[c]}

\* channel c alone, the other slots cleared
Alone(c) == [d \in Channels |-> IF d = c THEN audio_channels[c] ELSE ZeroChannel]

\* the line of thumbycolor_audio_update the step executes
UpdateLine == IF pc.op = "update" THEN pc.line ELSE 728

\* C28: thumbycolor_audio_update visits the channels in ascending index
\* order and changes only channels that are active with a non-null sequence
\* when it visits them; it never changes a channel's phase, samples_per_note,
\* sfx or looping, nor the master volume or the LFSR; and what it writes to a
\* channel depends on that channel's own prior state only.
C28_UpdateFrame ==
  [][UpdateWrites =>
       /\ master_volume' = master_volume
       /\ lfsr' = lfsr
       /\ \A c \in Channels :
            /\ audio_channels'[c].phase = audio_channels[c].phase
            /\ audio_channels'[c].samples_per_note = audio_channels[c].samples_per_note
            /\ audio_channels'[c].sfx = audio_channels[c].sfx
            /\ audio_channels'[c].looping = audio_channels[c].looping
       /\ \A c \in Changed :
            /\ audio_channels[c].active /\ audio_channels[c].sfx /= NULL
            /\ Changed = {c}
            /\ pc.op = "update" => c = pc.channel
            /\ pc'.op = "update" => pc'.channel >= c
            /\ audio_channels'[c] =
                 UpdateWrite(Alone(c), At("update", UpdateLine, 0, c, 0, FALSE)).chans[c]
       /\ (pc.op = "update" /\ pc'.op = "update") => pc'.channel >= pc.channel]_vars

\* one call has updated channel 0 and then channel 3, which it moved to its
\* next note, and has left the stopped channel 1 as it was
C28_Witness ==
  /\ last = "update"
  /\ pc.op = "idle"
  /\ audio_channels[0].sample_count = AUDIO_SAMPLE_RATE \div FRAME_RATE
  /\ audio_channels[3].note_index = 1
  /\ audio_channels[3].sfx = 3
  /\ audio_channels[1] = MixStopped

\* C29: each thumbycolor_audio_update call adds 367 to the elapsed count of
\* an active channel and advances it by at most one note, the count
\* restarting at 0 on the advance, so that every note lasts exactly
\* ceil(samples_per_note / 367) calls: after calls complete updates an
\* active channel is calls div that number of notes on (modulo the loop
\* length when it loops) and has counted 367 for each call since.
C29_NoteLastsCeil ==
  \A c \in Channels :
    (pc.op = "idle" /\ audio_channels[c].active) =>
       LET ch   == audio_channels[c]
           held == (ch.samples_per_note + 366) \div 367
           idx  == calls \div held
       IN  /\ ch.sample_count = 367 * (calls % held)
           /\ ch.note_index = IF ch.looping THEN idx % Sfx(ch.sfx).loop_end ELSE idx

\* sequence 7, of 5856 samples a note, has left its first note at the 16th
\* call, with 16 * 367 - 5856 samples of excess discarded
C29_Witness ==
  /\ pc.op = "idle"
  /\ calls = 16
  /\ \E c \in Channels :
       /\ audio_channels[c].active
       /\ audio_channels[c].sfx = 7
       /\ audio_channels[c].note_index = 1
       /\ audio_channels[c].sample_count = 0

\* ceil(max(183, speed * 183) / 367)
HeldFor(speed) == (FlooredSamples(speed) + 366) \div 367

\* the update call that leaves the first note has returned
NoteLeft ==
  /\ pc.op = "idle"
  /\ audio_channels[0].note_index = 1

\* the speeds that give channel 0 its samples_per_note
SpeedsOfNote == {s \in 0 .. 255 : FlooredSamples(s) = audio_channels[0].samples_per_note}

\* C30 as claimed: a larger speed means a longer note.  A note of speed s is
\* held for ceil(max(183, 183 * s) / 367) update calls, and for any two
\* speeds s1 < s2 in 0 .. 255 the number of calls under s2 is strictly
\* greater than under s1.
C30_LargerSpeedLongerNote ==
  \A s \in SpeedsOfNote :
    NoteLeft =>
      /\ calls = HeldFor(s)
      /\ \A s1 \in 0 .. (s - 1) : HeldFor(s1) < calls
      /\ \A s2 \in (s + 1) .. 255 : calls < HeldFor(s2)

\* C30, amended: a larger speed never means a shorter note, and means a
\* longer one when the speeds are two or more apart and the smaller is not 0.
\* Speeds 0 and 1 both give 183 samples, and every update call counts 367
\* samples, more than one speed step of 183 and more than two.
C30_LargerSpeedNotShorter ==
  \A s \in SpeedsOfNote :
    NoteLeft =>
      /\ calls = HeldFor(s)
      /\ \A s1 \in 0 .. (s - 1) :
           /\ HeldFor(s1) <= calls
           /\ (s1 >= 1 /\ s1 + 2 <= s) => HeldFor(s1) < calls
      /\ \A s2 \in (s + 1) .. 255 :
           /\ calls <= HeldFor(s2)
           /\ (s >= 1 /\ s + 2 <= s2) => calls < HeldFor(s2)

\* the note of the largest speed has been held for 128 calls
C30_Witness ==
  /\ NoteLeft
  /\ calls = 128
  /\ audio_channels[0].samples_per_note = 255 * 183

\* the note a play or an update in progress on channel c is loading
Loading(c) ==
  IF pc.op = "play" THEN [n |-> pc.n, i |-> 0]
  ELSE [n |-> audio_channels[c].sfx, i |-> audio_channels[c].note_index]

\* freq * 65536 / 22050 for the pitch of note i of sequence n
IncOfNote(n, i) == (p8_freq_table[Note(n, i, 0) + 1] * 65536) \div 22050

\* the waveform, volume and phase_inc of channel c are those of its note
HoldsNote(c) ==
  LET a == audio_channels[c]
  IN  /\ a.waveform = Note(a.sfx, a.note_index, 1)
      /\ a.volume = Note(a.sfx, a.note_index, 2)
      /\ a.phase_inc = IncOfNote(a.sfx, a.note_index)

\* C31: every value of waveform, volume and phase_inc the mixer reads from a
\* channel while a play or a note change of an update is in progress on it is
\* the value the field had before the operation or the value it has when the
\* operation completes: a call writes each of the three fields at most once,
\* the lines of a call on a channel running in increasing order, and the
\* value it writes is that of the note it is loading (0 for the phase_inc of
\* a rest), which no later write of the call changes.  Outside such an
\* operation the mixer reads the values of the channel's current note.
C31_ReadsOldOrNew ==
  [][/\ ~MixerStep =>
          \A c \in Channels :
            LET a == audio_channels[c]
                b == audio_channels'[c]
                l == Loading(c)
            IN  /\ (b.waveform /= a.waveform \/ b.volume /= a.volume
                      \/ b.phase_inc /= a.phase_inc)
                     => (pc.op \in {"play", "update"} /\ pc.channel = c)
                /\ b.waveform /= a.waveform => b.waveform = Note(l.n, l.i, 1)
                /\ b.volume /= a.volume => b.volume = Note(l.n, l.i, 2)
                /\ b.phase_inc /= a.phase_inc =>
                     b.phase_inc = IF Note(l.n, l.i, 2) = 0 THEN 0
                                   ELSE IncOfNote(l.n, l.i)
                /\ (pc.op = "update" /\ pc.channel = c /\ pc.line >= 744)
                     => (b.note_index = a.note_index /\ b.sfx = a.sfx)
     /\ (~MixerStep /\ pc.op \in {"play", "update"} /\ pc'.op = pc.op
           /\ pc'.channel = pc.channel) => pc'.line > pc.line
     /\ MixerStep =>
          \A c \in Contributing :
            (pc.op = "idle" \/ pc.channel /= c) => HoldsNote(c)]_vars

\* the mixer has run in the middle of a note change of sequence 0, between
\* the write of the new volume and the write of the new phase_inc: it read
\* note 1 at the frequency of note 0
C31_Witness ==
  /\ last = "mix"
  /\ out /= PWM_CENTER
  /\ pc.op = "update"
  /\ pc.line = 749
  /\ audio_channels[pc.channel].sfx = 0
  /\ audio_channels[pc.channel].note_index = 1
  /\ audio_channels[pc.channel].phase_inc = IncOfNote(0, 0)
  /\ audio_channels[pc.channel].phase_inc /= IncOfNote(0, 1)

\* C32: after every completed play or update call every active channel has
\* the waveform and the volume of its sequence's note at note_index, and its
\* phase_inc is p8_freq_table[pitch] * 65536 / 22050 for that note's pitch
\* when the volume is above 0 and 0 when the volume is 0, so that the
\* phase_inc of an active channel is 0 exactly on a rest; this includes the
\* note loaded by a wrap to loop_start.
C32_ActiveHoldsNote ==
  pc.op = "idle" =>
    \A c \in Channels :
      LET a == audio_channels[c]
      IN  a.active =>
            /\ a.waveform = Note(a.sfx, a.note_index, 1)
            /\ a.volume = Note(a.sfx, a.note_index, 2)
            /\ a.phase_inc = IF a.volume > 0 THEN IncOfNote(a.sfx, a.note_index) ELSE 0
            /\ a.phase_inc = 0 <=> Note(a.sfx, a.note_index, 2) = 0

\* an update call has wrapped the looping sequence 4 to its loop_start and
\* reloaded note 0
C32_Witness ==
  /\ pc.op = "idle"
  /\ last = "update"
  /\ \E c \in Channels :
       /\ audio_channels[c].active
       /\ audio_channels[c].sfx = 4
       /\ audio_channels[c].note_index = Sfx(4).loop_start
       /\ audio_channels[c].phase_inc = IncOfNote(4, 0)

\* C33: only a play activates a channel.  A step that takes a channel's
\* active flag from false to true is the write of line 713 of a play on that
\* channel of a sequence whose first note is audible; no write of an update,
\* of a stop or a stop-all, and no mixer invocation does it, so a channel
\* that has ended, was stopped or was given a silent first note stays
\* inactive until such a play.
C33_OnlyPlayActivates ==
  [][\A c \in Channels :
       (~audio_channels[c].active /\ audio_channels'[c].active) =>
          /\ ~MixerStep
          /\ pc.op = "play"
          /\ pc.line = 713
          /\ pc.channel = c
          /\ NoteAudible(pc.n, 0)]_vars

\* a sequence has run to its end and left its channel inactive, and a
\* stop-all has been called since
C33_Witness ==
  /\ pc.op = "idle"
  /\ last = "stop_all"
  /\ \E c \in Channels :
       /\ ~audio_channels[c].active
       /\ audio_channels[c].note_index = NUM_NOTES

\* the step is a write of thumbycolor_sfx: a stop, or a write of a play or of
\* a stop-all
SfxWrites == ~MixerStep /\ last' \in {"play", "stop", "stop_all"}

\* C34: a play and a stop on channel c change no field of any other channel,
\* and neither they nor a stop-all change the master volume or the LFSR;
\* thumbycolor_set_volume(v) stores v, for every v in 0 .. 255, and changes
\* nothing else; the mixer scales its sample by the value stored last.
C34_CallFrame ==
  [][/\ SfxWrites => (master_volume' = master_volume /\ lfsr' = lfsr)
     /\ \A n \in FrameSfxArgs, channel \in FrameChannelArgs :
          (SfxCalled(n, channel) /\ last' \in {"play", "stop"}) =>
             \A d \in Channels \ {channel} : audio_channels'[d] = audio_channels[d]
     /\ (~MixerStep /\ pc.op = "play") =>
          \A d \in Channels \ {pc.channel} : audio_channels'[d] = audio_channels[d]
     /\ (~MixerStep /\ last' = "set_volume") =>
          /\ audio_channels' = audio_channels
          /\ lfsr' = lfsr
          /\ out' = out
          /\ \A v \in 0 .. 255 : SetVolume(v) => master_volume' = v
     /\ MixerStep => out' = MixFormula]_vars

\* the master volume was set to 1 and the mixer has scaled the sample of
\* three contributing channels by it
C34_Witness ==
  /\ last = "mix"
  /\ master_volume = 1
  /\ calls = 1
  /\ Cardinality(Contributing) = 3

\* C35: after every completed play or update call, every channel that has
\* been given a sequence has 0 <= sample_count < samples_per_note.
C35_ElapsedBelowLength ==
  pc.op = "idle" =>
    \A c \in Channels :
      audio_channels[c].sfx /= NULL =>
        /\ 0 <= audio_channels[c].sample_count
        /\ audio_channels[c].sample_count < audio_channels[c].samples_per_note

\* sequence 7 after 15 update calls: one call short of leaving its first
\* note, 5505 of 5856 samples counted
C35_Witness ==
  /\ pc.op = "idle"
  /\ calls = 15
  /\ \E c \in Channels :
       /\ audio_channels[c].sfx = 7
       /\ audio_channels[c].note_index = 0
       /\ audio_channels[c].sample_count = 15 * 367
       /\ audio_channels[c].samples_per_note = 32 * 183

\* the update calls a channel has counted since its play: those of the notes
\* it has left and those of the note it is on
Progress(c) ==
  audio_channels[c].note_index * ((audio_channels[c].samples_per_note + 366) \div 367)
    + audio_channels[c].sample_count \div 367

\* C36 as claimed: every iteration of the main loop calls
\* thumbycolor_audio_update exactly once, so that a playing sequence that
\* does not loop moves towards its end with every iteration: at the end of
\* each iteration a channel still playing such a sequence has counted one
\* update call for every iteration since its play.
C36_UpdateEveryIteration ==
  last = "vsync" =>
    \A c \in Channels :
      (audio_channels[c].active /\ ~audio_channels[c].looping) =>
         Progress(c) = calls

\* 128 + mean * master_volume / 255, before any clamp
MixUnclamped ==
  LET S    == Term(0) + Term(1) + Term(2) + Term(3)
      k    == Cardinality(Contributing)
      mean == IF k = 0 THEN 0 ELSE Quot(S, k)
  IN  128 + Quot(mean * master_volume, 255)

\* C37: in every reachable state, the states in the middle of a call
\* included, every channel volume is in 0 .. 7, and the value 128 + mean *
\* master_volume / 255 the mixer computes is within 0 .. 255 before the
\* clamp, so the sample it returns is that value and neither clamp branch
\* changes it.
C37_ClampNeverActs ==
  [][MixerStep =>
       /\ \A c \in Channels : audio_channels[c].volume \in 0 .. 7
       /\ master_volume \in 0 .. 255
       /\ MixUnclamped \in 0 .. 255
       /\ out' = MixUnclamped]_vars

\* the mixer has returned the top of the range in the middle of a play, at
\* full master volume
C37_Witness ==
  /\ last = "mix"
  /\ pc.op = "play"
  /\ out = 255
  /\ master_volume = 255

\* C38: from the seed 0xACE1, after any number of gen_noise calls, the LFSR
\* is in 1 .. 65535: it never becomes 0 and never exceeds 16 bits.
C38_LfsrNonZero16Bit == lfsr \in 1 .. 65535

\* the LFSR after 20 gen_noise calls
C38_Witness ==
  /\ samples = 20
  /\ last = "mix"
  /\ lfsr = 29810

\* the step stores a phase_inc computed from the frequency table
StoresInc == ~MixerStep /\ pc.op \in {"play", "update"} /\ pc.line \in {712, 749}

\* C39: for every pitch index 0 .. 63 the product freq * 65536 is below 2^31
\* (freq is below 2^15), the phase_inc freq * 65536 / 22050 is above 0, and
\* it is strictly increasing in the pitch; the phase_inc a play or an update
\* stores is that value for the pitch of the note it loads.
C39_PhaseIncPositiveIncreasing ==
  [][StoresInc =>
       /\ \A pitch \in 0 .. 63 :
            /\ p8_freq_table[pitch + 1] < 32768
            /\ PhaseInc(pitch) > 0
            /\ pitch < 63 => PhaseInc(pitch) < PhaseInc(pitch + 1)
       /\ LET l == Loading(pc.channel)
          IN  /\ Note(l.n, l.i, 0) \in 0 .. 63
              /\ audio_channels'[pc.channel].phase_inc = IncOfNote(l.n, l.i)
              /\ audio_channels'[pc.channel].phase_inc > 0]_vars

\* an update has loaded the note of the highest pitch of the table, 63
C39_Witness ==
  /\ pc.op = "idle"
  /\ \E c \in Channels :
       /\ audio_channels[c].active
       /\ audio_channels[c].sfx = 1
       /\ audio_channels[c].note_index = 6
       /\ Note(1, 6, 0) = NUM_PITCHES - 1
       /\ audio_channels[c].phase_inc = (2489 * 65536) \div 22050
====
